---------------------------- MODULE Spec2Model ----------------------------
(***************************************************************************)
(* A model of the go-dsp Fourier-transform engine (src/fft/fft.go): the    *)
(* radix-2 Cooley-Tukey engine with its worker pool, Bluestein's           *)
(* algorithm, the facade functions FFT / IFFT / Convolve and the           *)
(* memoised twiddle and chirp caches with their reader/writer locks, the   *)
(* multi-dimensional transforms FFT2 / FFTN, and beside the engine the     *)
(* header validation of package wav and Segment of package spectral.       *)
(*                                                                         *)
(* complex128 values are modelled exactly, as elements of the cyclotomic   *)
(* field Q(zeta) with zeta = e^(2*pi*i/RootOrder): every value the engine  *)
(* computes for the lengths of the model (the powers of two up to TabMax   *)
(* and the Bluestein lengths 3 and 6) lies in that field, so sums,         *)
(* products and the division by the length are computed without rounding.  *)
(***************************************************************************)
EXTENDS Integers, Sequences, FiniteSets, TLC

(***************************************************************************)
(* Bounds of the model.                                                    *)
(***************************************************************************)
\* Input samples are the Gaussian integers a+bi with a, b >= 0, a+b <= MaxVal.
MaxVal == 1
\* runtime.GOMAXPROCS(0) is some value in 1..MaxProcs.
MaxProcs == 3
\* SetWorkerPoolSize is called with n in -1..MaxPool.
MaxPool == 3

\* Largest radix-2 length of the model; the field holds the TabMax-th and
\* the 12th roots of unity (Bluestein pads length 3 to 8 and length 6 to 16).
TabMax == 4 * 4
RootOrder == 3 * TabMax
Deg == TabMax
Half == TabMax \div 2

(***************************************************************************)
(* Exact complex arithmetic.  A number is <<c, d>>: the value              *)
(* (c[1] + c[2]*zeta + ... + c[Deg]*zeta^(Deg-1)) / d, in lowest terms.    *)
(* zeta satisfies zeta^Deg = zeta^Half - 1.                                *)
(***************************************************************************)
\* TLC keeps [k \in S |-> e] unevaluated and evaluates e anew at each
\* application; comparing the function evaluates it once and for all.
Force(f) == IF f = f THEN f ELSE f

Abs(n) == IF n < 0 THEN -n ELSE n

RECURSIVE Gcd(_, _)
Gcd(a, b) == IF b = 0 THEN a ELSE Gcd(b, a % b)

RECURSIVE GcdSeq(_, _, _)
GcdSeq(c, k, g) ==
  IF k > Len(c) \/ g = 1 THEN g ELSE GcdSeq(c, k + 1, Gcd(g, Abs(c[k])))

Norm(c, d) ==
  IF d = 1 THEN <<c, 1>>
  ELSE LET g == GcdSeq(c, 1, d)
       IN  IF g = 1 THEN <<c, d>>
           ELSE <<Force([k \in 1..Deg |-> c[k] \div g]), d \div g>>

ZeroC == <<Force([k \in 1..Deg |-> 0]), 1>>
OneC == <<Force([k \in 1..Deg |-> IF k = 1 THEN 1 ELSE 0]), 1>>

\* The integer n as a complex number.
IntC(n) == <<Force([k \in 1..Deg |-> IF k = 1 THEN n ELSE 0]), 1>>

\* zeta^e for 0 <= e < RootOrder, reduced to the basis 1..zeta^(Deg-1).
Unit(e) ==
  LET s == IF e >= RootOrder \div 2 THEN -1 ELSE 1
      f == IF e >= RootOrder \div 2 THEN e - RootOrder \div 2 ELSE e
  IN  <<Force([k \in 1..Deg |->
          IF f < Deg
            THEN (IF k = f + 1 THEN s ELSE 0)
            ELSE (IF k = f - Half + 1 THEN s
                  ELSE IF k = f - Deg + 1 THEN -s ELSE 0)]), 1>>

\* complex(a, b) for integers a, b:  i = zeta^(RootOrder/4).
Gauss(a, b) ==
  <<Force([k \in 1..Deg |-> IF k = 1 THEN a
                      ELSE IF k = RootOrder \div 4 + 1 THEN b ELSE 0]), 1>>

CAdd(a, b) ==
  IF a[2] = 1 /\ b[2] = 1
    THEN <<Force([k \in 1..Deg |-> a[1][k] + b[1][k]]), 1>>
    ELSE Norm(Force([k \in 1..Deg |-> a[1][k] * b[2] + b[1][k] * a[2]]), a[2] * b[2])

CNeg(a) == <<Force([k \in 1..Deg |-> -a[1][k]]), a[2]>>

CSub(a, b) == CAdd(a, CNeg(b))

\* coefficient m (0 <= m <= 2*Deg-2) of c * zeta^e before reduction
Shifted(c, e, m) == IF m >= e /\ m - e < Deg THEN c[m - e + 1] ELSE 0

\* coefficient k of c * zeta^e (0 <= e < Deg), reduced with zeta^Deg = zeta^Half - 1
\* (hence zeta^(Deg+Half) = -1)
ShiftCoef(c, e, k) ==
  IF k - 1 < Half
    THEN Shifted(c, e, k - 1) - Shifted(c, e, Deg + k - 1)
         - Shifted(c, e, Deg + Half + k - 1)
    ELSE Shifted(c, e, k - 1) + Shifted(c, e, Deg - Half + k - 1)

\* a * b = sum over i of b[i] * (a * zeta^(i-1)), the zero b[i] skipped
RECURSIVE MulAcc(_, _, _, _)
MulAcc(c, bc, i, acc) ==
  IF i > Deg THEN acc
  ELSE MulAcc(c, bc, i + 1,
              IF bc[i] = 0 THEN acc
              ELSE Force([k \in 1..Deg |-> acc[k] + bc[i] * ShiftCoef(c, i - 1, k)]))

CMul(a, b) == Norm(MulAcc(a[1], b[1], 1, ZeroC[1]), a[2] * b[2])

\* a / n for a positive integer n
CDivInt(a, n) == Norm(a[1], a[2] * n)


(***************************************************************************)
(* dsputils helpers.                                                       *)
(***************************************************************************)
\* x & (x-1) == 0 : true of every power of two and of 0
RECURSIVE IsPowerOf2(_)
IsPowerOf2(x) ==
  IF x <= 1 THEN TRUE
  ELSE IF x % 2 = 1 THEN FALSE ELSE IsPowerOf2(x \div 2)

\* the least power of two >= x (x >= 1)
RECURSIVE PowerAtLeast(_, _)
PowerAtLeast(x, p) == IF p >= x THEN p ELSE PowerAtLeast(x, 2 * p)

NextPowerOf2(x) == IF IsPowerOf2(x) THEN x ELSE PowerAtLeast(x, 1)

\* the zero sequence of make([]complex128, length)
Make(length) == Force([k \in 1..length |-> ZeroC])

\* ZeroPad returns x itself when the length matches, else a padded copy
ZeroPad(x, length) ==
  IF Len(x) = length THEN x
  ELSE Force([k \in 1..length |-> IF k <= Len(x) THEN x[k] ELSE ZeroC])

(***************************************************************************)
(* Bit reversal.  Sequences are 1-based: Go's x[n] is x[n+1] here.         *)
(***************************************************************************)
RECURSIVE log2Loop(_, _)
log2Loop(v, r) == IF v = 0 THEN r ELSE log2Loop(v \div 2, r + 1)

log2(v) == log2Loop(v \div 2, 0)

RECURSIVE Pow2(_)
Pow2(s) == IF s <= 0 THEN 1 ELSE 2 * Pow2(s - 1)

RECURSIVE reverseLoop(_, _, _)
reverseLoop(v, r, s) ==
  IF v = 0 THEN r * Pow2(s)
  ELSE reverseLoop(v \div 2, 2 * r + (v % 2), s - 1)

\* mutant: the reversed bits are not moved up into the s low bits
reverseBitsNoShift(v, s) ==
  LET top == log2(v) + 1 IN reverseLoop(v \div 2, v % 2, top - 1)

reverseBits(v, s) == reverseLoop(v \div 2, v % 2, s - 1)

\* for ; n < lx; n++ { r[reverseBits(n, s)] = x[n] }
RECURSIVE reorderLoop(_, _, _, _)
reorderLoop(x, r, s, n) ==
  IF n >= Len(x) THEN r
  ELSE reorderLoop(x, [r EXCEPT ![reverseBits(n, s) + 1] = x[n + 1]], s, n + 1)

\* r := make([]complex128, lx); s := log2(lx); the loop; return r
reorderData(x) == reorderLoop(x, Make(Len(x)), log2(Len(x)), 0)

(***************************************************************************)
(* The caches.  A map from lengths to tables is a function on CacheKeys;   *)
(* a missing entry (nil) is the empty sequence.                            *)
(***************************************************************************)
CacheKeys == 0..TabMax

Nil == << >>

\* the exponent of zeta^(-e), in 0..RootOrder-1
NegExp(e) == (RootOrder - (e % RootOrder)) % RootOrder

\* mutant: the angle without its minus sign
TwiddleConj(i, n) == Unit((n * (RootOrder \div i)) % RootOrder)

\* cis(-2*pi*n/i) = zeta^(-n * RootOrder/i)
Twiddle(i, n) == Unit(NegExp(n * (RootOrder \div i)))

\* cis(pi*k*k/L) = zeta^(k*k * RootOrder/(2L))
Chirp(L, k) ==
  IF k = 0 THEN OneC ELSE Unit((k * k * (RootOrder \div (2 * L))) % RootOrder)

InvChirp(L, k) ==
  IF k = 0 THEN OneC
  ELSE Unit(NegExp(k * k * (RootOrder \div (2 * L))))

\* the map literal of radix2Factors: {4: {1, -i, -1, i}}
SeedRadix2 ==
  Force([L \in CacheKeys |->
     IF L = 4 THEN <<Gauss(1, 0), Gauss(0, -1), Gauss(-1, 0), Gauss(0, 1)>>
     ELSE Nil])

EmptyCache == Force([L \in CacheKeys |-> Nil])

hasRadix2Factors(tab, idx) == idx \in DOMAIN tab /\ tab[idx] # Nil

\* mutant: the even entries copied from the half-size table one place off
FillEvenShifted(row, prev) ==
  Force([k \in 1..Len(row) |->
           IF (k - 1) % 2 = 0 THEN prev[(((k - 1) \div 2 + 1) % Len(prev)) + 1] ELSE row[k]])

\* even entries copied from the table of length p
FillEven(row, prev) ==
  Force([k \in 1..Len(row) |-> IF (k - 1) % 2 = 0 THEN prev[(k - 1) \div 2 + 1] ELSE row[k]])

\* odd entries computed with Sincos
FillOdd(row, i) ==
  Force([k \in 1..Len(row) |-> IF (k - 1) % 2 = 1 THEN Twiddle(i, k - 1) ELSE row[k]])

\* one iteration of the loop over i: the table for i, built from the one for p
BuildRadix2(tab, i, p) ==
  IF tab[i] = Nil
    THEN [tab EXCEPT ![i] = FillOdd(FillEven(Make(i), tab[p]), i)]
    ELSE tab

RECURSIVE radix2Loop(_, _, _, _)
radix2Loop(tab, i, p, input_len) ==
  IF i <= input_len
    THEN radix2Loop(BuildRadix2(tab, i, p), 2 * i, i, input_len)
    ELSE tab

\* the cache after getRadix2Factors(input_len)
radix2After(tab, input_len) ==
  IF hasRadix2Factors(tab, input_len) THEN tab
  ELSE radix2Loop(tab, 8, 4, input_len)

hasBluesteinFactors(bf, idx) == idx \in DOMAIN bf /\ bf[idx] # Nil

BuildChirp(input_len) == Force([k \in 1..input_len |-> Chirp(input_len, k - 1)])

\* mutant: the inverse chirp without the sign of the sine
BuildInvChirpSameSign(input_len) == BuildChirp(input_len)

BuildInvChirp(input_len) == Force([k \in 1..input_len |-> InvChirp(input_len, k - 1)])

(***************************************************************************)
(* The butterfly pass of radix2FFT.                                        *)
(***************************************************************************)
\* mutant: the butterfly without the twiddle multiplication (w = 1 at every stage)
ButterflyNoTwiddle(r, t, nb, stage, s_2, blocks, factors) ==
  Force([k \in 1..Len(t) |->
     LET idx == k - 1
     IN  IF idx >= nb /\ idx < nb + s_2 THEN CAdd(r[idx + 1], r[idx + s_2 + 1])
         ELSE IF idx >= nb + s_2 /\ idx < nb + 2 * s_2
           THEN CSub(r[idx - s_2 + 1], r[idx + 1])
         ELSE t[k]])

\* the body of the worker's loop over nb for one block: reads r, writes t
ButterflyBlock(r, t, nb, stage, s_2, blocks, factors) ==
  IF stage # 2
    THEN Force([k \in 1..Len(t) |->
           LET idx == k - 1
           IN  IF idx >= nb /\ idx < nb + s_2
                 THEN CAdd(r[idx + 1],
                           CMul(r[idx + s_2 + 1], factors[blocks * (idx - nb) + 1]))
               ELSE IF idx >= nb + s_2 /\ idx < nb + 2 * s_2
                 THEN CSub(r[idx - s_2 + 1],
                           CMul(r[idx + 1], factors[blocks * (idx - s_2 - nb) + 1]))
               ELSE t[k]])
    ELSE Force([k \in 1..Len(t) |->
           IF k - 1 = nb THEN CAdd(r[nb + 1], r[nb + 2])
           ELSE IF k - 1 = nb + 1 THEN CSub(r[nb + 1], r[nb + 2])
           ELSE t[k]])

\* every block of a chunk [nb, end), as one worker computes it
RECURSIVE blocksLoop(_, _, _, _, _, _, _)
blocksLoop(r, t, nb, end, stage, lx, factors) ==
  IF nb >= end THEN t
  ELSE blocksLoop(r,
                  ButterflyBlock(r, t, nb, stage, stage \div 2, lx \div stage, factors),
                  nb + stage, end, stage, lx, factors)

\* the stages 2, 4, ..., lx with the buffers swapped after each
RECURSIVE stageLoop(_, _, _, _, _)
stageLoop(r, t, stage, lx, factors) ==
  IF stage > lx THEN r
  ELSE stageLoop(blocksLoop(r, t, 0, lx, stage, lx, factors), r, 2 * stage, lx, factors)

(***************************************************************************)
(* The facade as functions of the input and of the package state st:       *)
(* st.r2, st.bf, st.bif are the three cache maps and st.n counts the       *)
(* transforms (FFT and IFFT calls) started.  A call returns                *)
(* [ok, val, msg, st]: ok = FALSE is a panic with message msg.             *)
(* st.depth is the number of calls of the package on the stack, and        *)
(* st.log lists the entries into radix2FFT and bluesteinFFT in order, each *)
(* with the length of its argument and the depth at which it runs.         *)
(***************************************************************************)
Done(val, st) == [ok |-> TRUE, val |-> val, msg |-> "", st |-> st]

Panic(msg, st) == [ok |-> FALSE, val |-> Nil, msg |-> msg, st |-> st]

\* a function of the package is entered, and left by return or panic
Enter(st) == [st EXCEPT !.depth = @ + 1]

Leave(res) == [res EXCEPT !.st.depth = @ - 1]

\* one of the two engines is entered
EnterEngine(st, eng, len) ==
  [st EXCEPT !.depth = @ + 1,
             !.log = Append(@, [eng |-> eng, len |-> len, depth |-> st.depth + 1])]

radix2FFT(x, st) ==
  LET lx == Len(x)
      st1 == EnterEngine(st, "radix2", lx)
      tab == radix2After(st1.r2, lx)
  IN  Leave(Done(stageLoop(reorderData(x), Make(lx), 2, lx, tab[lx]),
                 [st1 EXCEPT !.r2 = tab]))

\* the two chirp maps after getBluesteinFactors(input_len)
bluesteinAfter(st, input_len) ==
  IF hasBluesteinFactors(st.bf, input_len) THEN st
  ELSE [st EXCEPT !.bf[input_len] = BuildChirp(input_len),
                  !.bif[input_len] = BuildInvChirp(input_len)]

\* a after the loop over x: a[n] = v * invFactors[n], the padding untouched
BluesteinA(x, invFactors, a0) ==
  Force([k \in 1..Len(a0) |-> IF k <= Len(x) THEN CMul(x[k], invFactors[k]) ELSE a0[k]])

\* the indices of b the loop over i assigns, in the order it assigns them:
\* i, and la-i when i is not 0
RECURSIVE bWrites(_, _, _)
bWrites(i, lx, la) ==
  IF i >= lx THEN << >>
  ELSE (IF i # 0 THEN <<i, la - i>> ELSE <<i>>) \o bWrites(i + 1, lx, la)

\* mutant: b without the copy of the chirp wrapped to its end
BluesteinBNoMirror(factors, lx, la) ==
  Force([k \in 1..la |-> IF k - 1 < lx THEN factors[k] ELSE ZeroC])

\* the wrapped chirp sequence b of bluesteinFFT
BluesteinB(factors, lx, la) ==
  Force([k \in 1..la |->
     IF k - 1 < lx THEN factors[k]
     ELSE IF la - (k - 1) > 0 /\ la - (k - 1) < lx THEN factors[la - (k - 1) + 1]
     ELSE ZeroC])

\* r[i] *= invFactors[i] for i < lx, then r[:lx]
BluesteinOut(r, invFactors, lx) == Force([k \in 1..lx |-> CMul(r[k], invFactors[k])])

RECURSIVE FFT(_, _)

IFFT(x, st) ==
  LET lx == Len(x)
      st1 == Enter([st EXCEPT !.n = @ + 1])
  IN  Leave(
      IF lx = 0 THEN Panic("index out of range", st1)
      ELSE LET r == Force([k \in 1..lx |-> IF k = 1 THEN x[1] ELSE x[lx - (k - 1) + 1]])
               f == FFT(r, st1)
           IN  IF ~f.ok THEN f
               ELSE Done(Force([k \in 1..lx |-> CDivInt(f.val[k], lx)]), f.st))

\* mutant: the lengths are compared only after both forward transforms
ConvolveLateCheck(x, y, st) ==
  LET fft_x == FFT(x, st)
      fft_y == FFT(y, fft_x.st)
  IN  IF Len(x) # Len(y) THEN Panic("arrays not of equal size", fft_y.st)
      ELSE IFFT(Force([k \in 1..Len(x) |-> CMul(fft_x.val[k], fft_y.val[k])]), fft_y.st)

Convolve(x, y, st) ==
  LET st1 == Enter(st)
  IN  Leave(
      IF Len(x) # Len(y) THEN Panic("arrays not of equal size", st1)
      ELSE LET fft_x == FFT(x, st1)
           IN  IF ~fft_x.ok THEN fft_x
               ELSE LET fft_y == FFT(y, fft_x.st)
                    IN  IF ~fft_y.ok THEN fft_y
                        ELSE IFFT(Force([k \in 1..Len(x) |->
                                           CMul(fft_x.val[k], fft_y.val[k])]),
                                  fft_y.st))

bluesteinFFT(x, st) ==
  LET lx == Len(x)
      a0 == ZeroPad(x, NextPowerOf2(lx * 2 - 1))
      la == Len(a0)
      st1 == bluesteinAfter(EnterEngine(st, "bluestein", lx), lx)
      factors == st1.bf[lx]
      invFactors == st1.bif[lx]
      a == BluesteinA(x, invFactors, a0)
      b == BluesteinB(factors, lx, la)
      c == Convolve(a, b, st1)
  IN  Leave(IF ~c.ok THEN c
            ELSE Done(BluesteinOut(c.val, invFactors, lx), c.st))

\* mutant: an input of length 4 is handed to bluesteinFFT
FFTFourByBluestein(x, st) ==
  LET lx == Len(x)
      st1 == Enter([st EXCEPT !.n = @ + 1])
  IN  Leave(IF lx <= 1 THEN Done(x, st1)
            ELSE IF IsPowerOf2(lx) /\ lx # 4 THEN radix2FFT(x, st1)
            ELSE bluesteinFFT(x, st1))

FFT(x, st) ==
  LET lx == Len(x)
      st1 == Enter([st EXCEPT !.n = @ + 1])
  IN  Leave(IF lx <= 1 THEN Done(x, st1)
            ELSE IF IsPowerOf2(lx) THEN radix2FFT(x, st1)
            ELSE bluesteinFFT(x, st1))

(***************************************************************************)
(* State.                                                                  *)
(***************************************************************************)
VARIABLES
  \* package state of src/fft/fft.go
  radix2Factors, bluesteinFactors, bluesteinInvFactors, worker_pool_size,
  \* runtime.GOMAXPROCS(0)
  gomaxprocs,
  \* the last facade call, what it returned and the transforms it started
  call, ret, transforms,
  \* the argument last given to SetWorkerPoolSize (0 before any call)
  lastN,
  \* one run of radix2FFT: the caller's position and locals
  dpc, x, lx, factors, r, t, blocks, stage, s_2, num_workers, idx_diff,
  start, end, workers_spawned, n, out,
  \* the channels jobs and results, and whether jobs is closed
  jobs, results, closed,
  \* the worker goroutines: position, the work received, the loop variable nb
  wpc, work, nb,
  \* the stages completed by the current run
  stagesRun,
  \* radix2Lock and bluesteinLock: who holds them shared, who exclusively
  radix2Lock, bluesteinLock,
  \* the goroutines inside getRadix2Factors or getBluesteinFactors: position,
  \* locals (input_len, i, p, n, j) and the tuple of tables the call returned
  gpc, loc, gret,
  \* one call of FFT2, IFFT2, FFTN or IFFTN: its position, the matrices it
  \* holds by address, its locals, the [][]complex128 r of computeFFT2 and
  \* the result of the FFT2 call made before on the same data
  mpc, heap, frame, grid, prev,
  \* one call of checkHeader or ReadWav (src/wav/wav.go): which call ended
  \* how, the arguments header and r, and the results wav and err
  wst, header, reader, wav, err,
  \* one call of Segment: its arguments and its result
  seg,
  \* one call of reverseBits or reorderData: its arguments and its result
  rev,
  \* one call of FFT, IFFT, Convolve or FFT2 seen as reads and writes of
  \* arrays: the arrays there are, the argument slices and the slice returned
  ali,
  \* one call of readSample, of the wav package that indexes with uint16: the
  \* header, the sample index and what was read
  smp,
  \* the current stage of radix2FFT as it went so far: the jobs sent, and
  \* for each index of t the jobs whose worker assigned it
  chunks, writes

pkgVars == <<radix2Factors, bluesteinFactors, bluesteinInvFactors>>
apiVars == <<call, ret, transforms>>
poolVars == <<worker_pool_size, gomaxprocs, lastN>>
runVars == <<dpc, x, lx, factors, r, t, blocks, stage, s_2, num_workers, idx_diff,
             start, end, workers_spawned, n, out, stagesRun>>
chanVars == <<jobs, results, closed>>
workerVars == <<wpc, work, nb>>
engVars == <<runVars, chanVars, workerVars>>
lockVars == <<radix2Lock, bluesteinLock, gpc, loc, gret>>
gridVars == <<mpc, heap, frame, grid, prev>>
wavVars == <<wst, header, reader, wav, err>>
stageVars == <<chunks, writes>>
baseRest == <<gridVars, wavVars, seg, rev, ali, smp>>
restVars == <<baseRest, stageVars>>
vars == <<pkgVars, apiVars, poolVars, engVars, lockVars, restVars>>

(***************************************************************************)
(* Inputs.                                                                 *)
(***************************************************************************)
\* the samples: a + bi with a, b >= 0 and a + b <= MaxVal
Vals == {Gauss(ab[1], ab[2]) :
           ab \in {p \in (0..MaxVal) \X (0..MaxVal) : p[1] + p[2] <= MaxVal}}

\* lengths whose transform stays inside the field: 0, 1, the powers of two
\* up to TabMax, and the L with a 2L-th root of unity whose padded length fits
Exact(L) ==
  \/ L <= 1
  \/ IsPowerOf2(L) /\ L <= TabMax
  \/ ~IsPowerOf2(L) /\ RootOrder % (2 * L) = 0 /\ NextPowerOf2(2 * L - 1) <= TabMax

ExactLens == {L \in 0..TabMax : Exact(L)}

\* every sequence over Vals is tried up to this length
FullLens == {L \in ExactLens : L <= 4}

Reals(xs) == Force([k \in 1..Len(xs) |-> IntC(xs[k])])

Impulse(L) == Force([k \in 1..L |-> IF k = 1 THEN OneC ELSE ZeroC])

Ones(L) == Force([k \in 1..L |-> OneC])

Ramp(L) == Force([k \in 1..L |-> IntC(k)])

\* the inputs of fftTests (src/fft/fft_test.go) among the exact lengths
TestInputs ==
  {Impulse(L) : L \in ExactLens \ {0}} \cup {Ramp(L) : L \in ExactLens \ {0}}
  \cup {Reals(<<1, 3, 5, 7>>), Reals(<<0, 1, 0, 0>>)}

Inputs == UNION {[1..L -> Vals] : L \in FullLens} \cup TestInputs

\* operands of Convolve: one of each exact length and shape
Kernels == {Impulse(L) : L \in ExactLens} \cup {Ones(L) : L \in ExactLens}
           \cup {Ramp(L) : L \in FullLens}

(***************************************************************************)
(* The facade, one call at a time.                                         *)
(***************************************************************************)
PkgState == [r2 |-> radix2Factors, bf |-> bluesteinFactors,
             bif |-> bluesteinInvFactors, n |-> 0, depth |-> 0, log |-> << >>]

NoCall == [op |-> "none", x |-> Nil, y |-> Nil]

\* st: "none" (no call), "pending" (called, not yet run), "ok", "panic"
NoRet == [st |-> "none", val |-> Nil, msg |-> ""]

Pending == [st |-> "pending", val |-> Nil, msg |-> ""]

\* a caller invokes op with the arguments a, b
Invoke(op, a, b) ==
  /\ ret.st = "none"
  /\ call' = [op |-> op, x |-> a, y |-> b]
  /\ ret' = Pending
  /\ UNCHANGED <<transforms, pkgVars, poolVars, engVars, lockVars, restVars>>

InvokeFFT == \E a \in Inputs : Invoke("FFT", a, Nil)

InvokeIFFT == \E a \in Inputs : Invoke("IFFT", a, Nil)

InvokeConvolve == \E a \in Kernels, b \in Kernels : Invoke("Convolve", a, b)

\* the call returns (or panics) and leaves the package state res.st
Returns(res) ==
  /\ ret' = [st |-> IF res.ok THEN "ok" ELSE "panic", val |-> res.val, msg |-> res.msg]
  /\ transforms' = res.st.n
  /\ radix2Factors' = res.st.r2
  /\ bluesteinFactors' = res.st.bf
  /\ bluesteinInvFactors' = res.st.bif
  /\ UNCHANGED <<call, poolVars, engVars, lockVars, restVars>>

RunFFT ==
  /\ ret.st = "pending" /\ call.op = "FFT"
  /\ Returns(FFT(call.x, PkgState))

RunIFFT ==
  /\ ret.st = "pending" /\ call.op = "IFFT"
  /\ Returns(IFFT(call.x, PkgState))

RunConvolve ==
  /\ ret.st = "pending" /\ call.op = "Convolve"
  /\ Returns(Convolve(call.x, call.y, PkgState))

\* the caller drops the result; the caches stay
Forget ==
  /\ ret.st \in {"ok", "panic"}
  /\ call' = NoCall /\ ret' = NoRet /\ transforms' = 0
  /\ UNCHANGED <<pkgVars, poolVars, engVars, lockVars, restVars>>

(***************************************************************************)
(* Initial states.                                                         *)
(***************************************************************************)
InitPkg ==
  /\ radix2Factors = SeedRadix2
  /\ bluesteinFactors = EmptyCache
  /\ bluesteinInvFactors = EmptyCache

InitApi == call = NoCall /\ ret = NoRet /\ transforms = 0

InitPool == worker_pool_size = 0 /\ lastN = 0

MaxW == IF MaxProcs > MaxPool THEN MaxProcs ELSE MaxPool

Workers == 1..MaxW

NoWork == [start |-> 0, end |-> 0, stage |-> 0]

InitEng ==
  /\ dpc = "idle" /\ x = Nil /\ lx = 0 /\ factors = Nil /\ r = Nil /\ t = Nil
  /\ blocks = 0 /\ stage = 0 /\ s_2 = 0 /\ num_workers = 0 /\ idx_diff = 0
  /\ start = 0 /\ end = 0 /\ workers_spawned = 0 /\ n = 0 /\ out = Nil
  /\ stagesRun = 0
  /\ jobs = << >> /\ results = 0 /\ closed = FALSE
  /\ wpc = [w \in Workers |-> "off"]
  /\ work = [w \in Workers |-> NoWork]
  /\ nb = [w \in Workers |-> 0]

\* goroutines that may be inside the cache functions at the same time
NumCallers == 2

Callers == 1..NumCallers

Unlocked == [readers |-> {}, writer |-> 0]

\* cached records whether the table asked for was present when the call began
NoLocals == [input_len |-> 0, i |-> 0, p |-> 0, n |-> 0, j |-> 0, cached |-> FALSE]

InitLock ==
  /\ radix2Lock = Unlocked /\ bluesteinLock = Unlocked
  /\ gpc = [c \in Callers |-> "idle"]
  /\ loc = [c \in Callers |-> NoLocals]
  /\ gret = [c \in Callers |-> Nil]

\* the facade's results do not depend on the pool: one worker
\* no matrix at an address yet
NoMatrix == [list |-> Nil, dims |-> Nil]

\* the locals of computeFFT2 (rows, cols, i) and of computeFFTN (m, t and r
\* by address, dims, n, d), with the writes each element of r has had and
\* the lines transformed in the current pass over an axis
NoFrame == [rows |-> 0, cols |-> 0, i |-> 0, m |-> 0, t |-> 0, r |-> 0,
            dims |-> Nil, n |-> 0, d |-> Nil, written |-> Nil, lines |-> 0]

InitGrid ==
  /\ mpc = "idle"
  /\ heap = <<NoMatrix, NoMatrix, NoMatrix>>
  /\ frame = NoFrame
  /\ grid = Nil
  /\ prev = Nil

\* a nil *Wav, and a nil error
NilWav == [nil |-> TRUE, AudioFormat |-> 0, NumChannels |-> 0, SampleRate |-> 0,
           ByteRate |-> 0, BlockAlign |-> 0, BitsPerSample |-> 0, ChunkSize |-> 0,
           NumSamples |-> 0, Data8 |-> Nil, Data16 |-> Nil, Data |-> Nil]

NoErr == ""

\* a nil io.Reader
NilReader == [nil |-> TRUE, bytes |-> Nil]

InitWav ==
  /\ wst = "idle"
  /\ header = Nil
  /\ reader = NilReader
  /\ wav = NilWav
  /\ err = NoErr

NoSeg == [st |-> "idle", xs |-> Nil, size |-> 0, noverlap |-> 0, r |-> Nil]

NoRev == [st |-> "idle", op |-> "none", v |-> 0, s |-> 0, xs |-> Nil, r |-> 0,
          out |-> Nil]

InitStage == chunks = << >> /\ writes = << >>

NoAli ==
  [st |-> "idle", op |-> "none", mem |-> << >>, before |-> << >>, base |-> 0,
   args |-> << >>, ok |-> TRUE, ret |-> Nil]

NoSmp ==
  [st |-> "idle", hdr |-> Nil, i |-> 0, offs |-> << >>, vals |-> << >>]

InitRest == InitGrid /\ InitWav /\ seg = NoSeg /\ rev = NoRev /\ InitStage /\ ali = NoAli /\ smp = NoSmp

Init ==
  /\ InitPkg /\ InitApi /\ InitPool /\ InitEng /\ InitLock /\ InitRest
  /\ gomaxprocs = 1

Next ==
  \/ InvokeFFT \/ InvokeIFFT \/ InvokeConvolve
  \/ RunFFT \/ RunIFFT \/ RunConvolve
  \/ Forget

Spec == Init /\ [][Next]_vars

(***************************************************************************)
(* SetWorkerPoolSize and one run of radix2FFT with its worker goroutines.  *)
(* The caller's positions: "idle" (not in radix2FFT), "stage" (the test of *)
(* the loop over stage), "chunk" (the loop that cuts the stage into jobs), *)
(* "collect" (the loop that receives the results), "return".               *)
(* A worker's positions: "off" (not started), "recv" (at range jobs),      *)
(* "work" (in the loop over nb), "send" (at results <- true), "exited",    *)
(* "panic" (an index out of range).                                        *)
(***************************************************************************)
\* mutant: a request for 0 workers is stored as 1 worker
ClampToOne(m) == IF m < 1 THEN 1 ELSE m

\* if n < 0 { n = 0 }
ClampPoolSize(m) == IF m < 0 THEN 0 ELSE m

SetWorkerPoolSize ==
  \E m \in -1..MaxPool :
    /\ dpc = "idle"
    /\ worker_pool_size' = ClampPoolSize(m)
    /\ lastN' = m
    /\ UNCHANGED <<gomaxprocs, pkgVars, apiVars, engVars, lockVars, restVars>>

\* num_workers := worker_pool_size, or GOMAXPROCS when that is 0
NumWorkers(pool, procs) == IF pool = 0 THEN procs ELSE pool

\* idx_diff := lx / num_workers, at least 2
IdxDiff(len, workers) == IF len \div workers < 2 THEN 2 ELSE len \div workers

\* inputs of the engine: every sequence over Vals of length 2, and the test
\* vectors of each power-of-two length
EngineLens == {L \in 2..TabMax : IsPowerOf2(L)}

EngineInputs ==
  [1..2 -> Vals]
  \cup {Ramp(L) : L \in EngineLens}
  \cup {Force([k \in 1..L |-> IF k = 2 THEN Gauss(0, 1) ELSE ZeroC]) : L \in EngineLens}

Busy(w) == wpc[w] \in {"work", "send"}

CallRadix2 ==
  \E a \in EngineInputs :
    /\ dpc = "idle"
    /\ \A w \in Workers : wpc[w] \in {"off", "exited"}
    /\ x' = a
    /\ lx' = Len(a)
    /\ radix2Factors' = radix2After(radix2Factors, Len(a))
    /\ factors' = radix2Factors'[Len(a)]
    /\ t' = Make(Len(a))
    /\ r' = reorderData(a)
    /\ blocks' = 0 /\ s_2' = 0 /\ stage' = 2
    /\ jobs' = << >> /\ results' = 0 /\ closed' = FALSE
    /\ num_workers' = NumWorkers(worker_pool_size, gomaxprocs)
    /\ idx_diff' = IdxDiff(Len(a), num_workers')
    /\ wpc' = [w \in Workers |-> IF w <= num_workers' THEN "recv" ELSE "off"]
    /\ work' = [w \in Workers |-> NoWork]
    /\ nb' = [w \in Workers |-> 0]
    /\ start' = 0 /\ end' = 0 /\ workers_spawned' = 0 /\ n' = 0
    /\ out' = Nil /\ stagesRun' = 0
    /\ dpc' = "stage"
    /\ chunks' = << >> /\ writes' = [k \in 1..Len(a) |-> << >>]
    /\ UNCHANGED <<bluesteinFactors, bluesteinInvFactors, apiVars, poolVars, lockVars, baseRest>>

\* for stage = 2; stage <= lx; ... : the test, and the head of the loop body
StageTest ==
  /\ dpc = "stage"
  /\ IF stage <= lx
       THEN /\ blocks' = lx \div stage
            /\ s_2' = stage \div 2
            /\ workers_spawned' = 0
            /\ start' = 0 /\ end' = stage
            /\ dpc' = "chunk"
            /\ chunks' = << >> /\ writes' = [k \in 1..lx |-> << >>]
       ELSE /\ dpc' = "return"
            /\ UNCHANGED <<blocks, s_2, workers_spawned, start, end, stageVars>>
  /\ UNCHANGED <<x, lx, factors, r, t, stage, num_workers, idx_diff, n, out, stagesRun,
                 chanVars, workerVars, pkgVars, apiVars, poolVars, lockVars, baseRest>>

\* mutant: every block of a stage is sent as a job of its own
ChunkReadyAlways(s, e, diff, len) == TRUE

\* if end-start >= idx_diff || end == lx
ChunkReady(s, e, diff, len) == e - s >= diff \/ e = len

\* mutant: after a send the next chunk begins one block before the end of
\* the one just sent
ChunkOverlap ==
  /\ dpc = "chunk"
  /\ IF ChunkReady(start, end, idx_diff, lx)
       THEN /\ Len(jobs) < lx
            /\ workers_spawned' = workers_spawned + 1
            /\ jobs' = Append(jobs, [start |-> start, end |-> end, stage |-> stage])
            /\ chunks' = Append(chunks, [start |-> start, end |-> end])
            /\ IF end = lx
                 THEN dpc' = "collect" /\ n' = 0 /\ start' = 0 /\ end' = 0
                 ELSE dpc' = "chunk" /\ start' = end - stage /\ end' = end + stage /\ n' = n
       ELSE /\ end' = end + stage
            /\ UNCHANGED <<workers_spawned, jobs, dpc, n, start, chunks>>
  /\ UNCHANGED <<x, lx, factors, r, t, blocks, stage, s_2, num_workers, idx_diff, out,
                 stagesRun, results, closed, workerVars, pkgVars, apiVars, poolVars, lockVars,
                 baseRest, writes>>

\* one iteration of the loop that cuts the stage into jobs; a send blocks
\* while the channel holds lx jobs
Chunk ==
  /\ dpc = "chunk"
  /\ IF ChunkReady(start, end, idx_diff, lx)
       THEN /\ Len(jobs) < lx
            /\ workers_spawned' = workers_spawned + 1
            /\ jobs' = Append(jobs, [start |-> start, end |-> end, stage |-> stage])
            /\ chunks' = Append(chunks, [start |-> start, end |-> end])
            /\ IF end = lx
                 THEN dpc' = "collect" /\ n' = 0 /\ start' = 0 /\ end' = 0
                 ELSE dpc' = "chunk" /\ start' = end /\ end' = end + stage /\ n' = n
       ELSE /\ end' = end + stage
            /\ UNCHANGED <<workers_spawned, jobs, dpc, n, start, chunks>>
  /\ UNCHANGED <<x, lx, factors, r, t, blocks, stage, s_2, num_workers, idx_diff, out,
                 stagesRun, results, closed, workerVars, pkgVars, apiVars, poolVars, lockVars,
                 baseRest, writes>>

\* mutant: the caller waits for one result fewer than it sent jobs
AwaitsAllButOne(got, sent) == got + 1 < sent

\* mutant: the caller waits for one result more than it sent jobs
AwaitsOneMore(got, sent) == got <= sent

\* for n := 0; n < workers_spawned; n++
AwaitsResult(got, sent) == got < sent

\* one receive from results, or, after the last, r, t = t, r and stage <<= 1
\* (n is a variable of the receiving loop and ends with it)
Collect ==
  /\ dpc = "collect"
  /\ IF AwaitsResult(n, workers_spawned)
       THEN /\ results > 0
            /\ results' = results - 1
            /\ n' = n + 1
            /\ UNCHANGED <<r, t, stage, stagesRun, dpc>>
       ELSE /\ r' = t /\ t' = r
            /\ stage' = 2 * stage
            /\ stagesRun' = stagesRun + 1
            /\ dpc' = "stage"
            /\ n' = 0
            /\ UNCHANGED results
  /\ UNCHANGED <<x, lx, factors, blocks, s_2, num_workers, idx_diff, start, end,
                 workers_spawned, out, jobs, closed, workerVars, pkgVars, apiVars,
                 poolVars, lockVars, restVars>>

\* mutant: the return without the deferred close(jobs)
ReturnNoClose ==
  /\ dpc = "return"
  /\ out' = r
  /\ closed' = closed
  /\ dpc' = "idle"
  /\ x' = Nil /\ r' = Nil /\ t' = Nil /\ factors' = Nil
  /\ blocks' = 0 /\ stage' = 0 /\ s_2' = 0 /\ idx_diff' = 0
  /\ workers_spawned' = 0
  /\ UNCHANGED <<lx, num_workers, start, end, n, stagesRun, jobs, results,
                 workerVars, pkgVars, apiVars, poolVars, lockVars, restVars>>

\* return r, and the deferred close(jobs); the buffers and the loop variables
\* of the call are dead from here on
Return ==
  /\ dpc = "return"
  /\ out' = r
  /\ closed' = TRUE
  /\ dpc' = "idle"
  /\ x' = Nil /\ r' = Nil /\ t' = Nil /\ factors' = Nil
  /\ blocks' = 0 /\ stage' = 0 /\ s_2' = 0 /\ idx_diff' = 0
  /\ workers_spawned' = 0
  /\ UNCHANGED <<lx, num_workers, start, end, n, stagesRun, jobs, results,
                 workerVars, pkgVars, apiVars, poolVars, lockVars, restVars>>

\* mutant: the worker reports completion when it takes the job
WorkerRecvAck(w) ==
  /\ wpc[w] = "recv"
  /\ jobs # << >>
  /\ results < lx
  /\ results' = results + 1
  /\ work' = [work EXCEPT ![w] = Head(jobs)]
  /\ nb' = [nb EXCEPT ![w] = Head(jobs).start]
  /\ jobs' = Tail(jobs)
  /\ wpc' = [wpc EXCEPT ![w] = "work"]
  /\ UNCHANGED <<runVars, closed, pkgVars, apiVars, poolVars, lockVars, restVars>>

\* for work := range jobs : a job is received
WorkerRecv(w) ==
  /\ wpc[w] = "recv"
  /\ jobs # << >>
  /\ work' = [work EXCEPT ![w] = Head(jobs)]
  /\ nb' = [nb EXCEPT ![w] = Head(jobs).start]
  /\ jobs' = Tail(jobs)
  /\ wpc' = [wpc EXCEPT ![w] = "work"]
  /\ UNCHANGED <<runVars, results, closed, pkgVars, apiVars, poolVars, lockVars, restVars>>

\* for work := range jobs : the channel is closed and empty
WorkerExit(w) ==
  /\ wpc[w] = "recv"
  /\ jobs = << >> /\ closed
  /\ wpc' = [wpc EXCEPT ![w] = "exited"]
  /\ UNCHANGED <<runVars, chanVars, work, nb, pkgVars, apiVars, poolVars, lockVars, restVars>>

\* the indices of t the block at b assigns: idx and idx2 for each j, or nb
\* and n1 at stage 2
BlockWrites(b, stg, half) ==
  IF stg # 2
    THEN {b + j : j \in 0..(half - 1)} \cup {b + j + half : j \in 0..(half - 1)}
    ELSE {b, b + 1}

\* the indices of r the block at b reads: r[idx] and r[idx2], or r[nb] and r[n1]
BlockReads(b, stg, half) ==
  IF stg # 2
    THEN {b + j : j \in 0..(half - 1)} \cup {b + j + half : j \in 0..(half - 1)}
    ELSE {b, b + 1}

\* the indices of factors the block reads: blocks*j for each j, none at stage 2
FactorReads(stg, half, blk) == IF stg # 2 THEN {blk * j : j \in 0..(half - 1)} ELSE {}

\* the indices the block at b reads and writes lie inside the buffers
BlockInRange(b) ==
  /\ stage >= 2
  /\ b + stage <= Len(r)
  /\ stage # 2 => blocks * (s_2 - 1) < Len(factors)

\* one iteration of the loop over nb, as far as the worker's position goes:
\* nb += stage, and the test nb < work.end
BlockPos(w) ==
  /\ wpc[w] = "work"
  /\ IF BlockInRange(nb[w])
       THEN /\ nb' = [nb EXCEPT ![w] = nb[w] + stage]
            /\ wpc' = [wpc EXCEPT ![w] =
                         IF nb[w] + stage < work[w].end THEN "work" ELSE "send"]
       ELSE /\ wpc' = [wpc EXCEPT ![w] = "panic"]
            /\ nb' = nb

\* one iteration of the loop over nb: the block at nb, with the stage, s_2,
\* blocks, r and t of the enclosing function as they are now
WorkerBlock(w) ==
  /\ BlockPos(w)
  /\ UNCHANGED <<dpc, x, lx, factors, r, blocks, stage, s_2, num_workers, idx_diff,
                 start, end, workers_spawned, n, out, stagesRun, chanVars, work,
                 pkgVars, apiVars, poolVars, lockVars, baseRest, chunks>>
  /\ t' = IF BlockInRange(nb[w])
            THEN ButterflyBlock(r, t, nb[w], stage, s_2, blocks, factors)
            ELSE t
  /\ writes' = IF BlockInRange(nb[w])
                 THEN [k \in 1..Len(writes) |->
                         IF k - 1 \in BlockWrites(nb[w], stage, s_2)
                           THEN Append(writes[k], [start |-> work[w].start, end |-> work[w].end])
                           ELSE writes[k]]
                 ELSE writes

\* results <- true, the end of the body of the loop over jobs
WorkerSend(w) ==
  /\ wpc[w] = "send"
  /\ results < lx
  /\ results' = results + 1
  /\ wpc' = [wpc EXCEPT ![w] = "recv"]
  /\ work' = [work EXCEPT ![w] = NoWork]
  /\ nb' = [nb EXCEPT ![w] = 0]
  /\ UNCHANGED <<runVars, jobs, closed, pkgVars, apiVars, poolVars, lockVars, restVars>>

Caller == StageTest \/ Chunk \/ Collect \/ Return

\* the steps of worker w at its channel operations
WorkerChan(w) == WorkerRecv(w) \/ WorkerSend(w) \/ WorkerExit(w)

InitEngine ==
  /\ InitPkg /\ InitApi /\ InitPool /\ InitEng /\ InitLock /\ InitRest
  /\ gomaxprocs \in 1..MaxProcs

NextEngine ==
  \/ SetWorkerPoolSize
  \/ CallRadix2
  \/ StageTest \/ Chunk \/ Collect \/ Return
  \/ \E w \in Workers : WorkerRecv(w)
  \/ \E w \in Workers : WorkerBlock(w)
  \/ \E w \in Workers : WorkerSend(w)
  \/ \E w \in Workers : WorkerExit(w)

SpecEngine == InitEngine /\ [][NextEngine]_vars

\* the scheduler lets the caller and every worker run: a goroutine that can
\* take its next step eventually takes it (for a worker inside its loop over
\* nb the step is the advance of its position)
SpecEngineFair ==
  /\ InitEngine /\ [][NextEngine]_vars
  /\ WF_vars(Caller)
  /\ \A w \in Workers : WF_vars(WorkerChan(w)) /\ WF_<<wpc, nb>>(BlockPos(w))

(***************************************************************************)
(* getRadix2Factors and getBluesteinFactors, statement by statement, called *)
(* by several goroutines at once.  A goroutine's positions in              *)
(* getRadix2Factors: "r2.rlock", "r2.check", "r2.rret", "r2.runlock",      *)
(* "r2.lock", "r2.recheck", "r2.loop", "r2.even", "r2.odd", "r2.wret"; in  *)
(* getBluesteinFactors: "bl.rlock", "bl.check", "bl.rret", "bl.runlock",   *)
(* "bl.lock", "bl.recheck", "bl.fill", "bl.wret".                          *)
(***************************************************************************)
\* mutant: RLock does not wait for the writer
CanRLockAnytime(lock) == TRUE

\* sync.RWMutex: RLock waits while a writer holds the lock
CanRLock(lock) == lock.writer = 0

\* sync.RWMutex: Lock waits for the readers and the writer to leave
CanLock(lock) == lock.writer = 0 /\ lock.readers = {}

\* arguments of getRadix2Factors: the powers of two, and 12 through
\* EnsureRadix2Factors
Radix2Args == {L \in 2..TabMax : IsPowerOf2(L)} \cup {12}

\* arguments of getBluesteinFactors
BluesteinArgs == {L \in 2..TabMax : Exact(L) /\ ~IsPowerOf2(L)}

At(c, pos) == gpc[c] = pos

Goto(c, pos) == gpc' = [gpc EXCEPT ![c] = pos]

SetLoc(c, rec) == loc' = [loc EXCEPT ![c] = rec]

\* the store tab[L][k] = v (k counted from 0)
Store(tab, L, k, v) == [tab EXCEPT ![L] = [tab[L] EXCEPT ![k + 1] = v]]

otherVars == <<apiVars, poolVars, engVars, restVars>>

CallGetRadix2(c) ==
  \E L \in Radix2Args :
    /\ At(c, "idle")
    /\ Goto(c, "r2.rlock")
    /\ SetLoc(c, [NoLocals EXCEPT !.input_len = L,
                                 !.cached = hasRadix2Factors(radix2Factors, L)])
    /\ gret' = [gret EXCEPT ![c] = Nil]
    /\ UNCHANGED <<radix2Lock, bluesteinLock, pkgVars, otherVars>>

R2RLock(c) ==
  /\ At(c, "r2.rlock")
  /\ CanRLock(radix2Lock)
  /\ radix2Lock' = [radix2Lock EXCEPT !.readers = @ \cup {c}]
  /\ Goto(c, "r2.check")
  /\ UNCHANGED <<bluesteinLock, loc, gret, pkgVars, otherVars>>

R2Check(c) ==
  /\ At(c, "r2.check")
  /\ Goto(c, IF hasRadix2Factors(radix2Factors, loc[c].input_len)
               THEN "r2.rret" ELSE "r2.runlock")
  /\ UNCHANGED <<radix2Lock, bluesteinLock, loc, gret, pkgVars, otherVars>>

\* return radix2Factors[input_len], then the deferred RUnlock
R2ReadReturn(c) ==
  /\ At(c, "r2.rret")
  /\ gret' = [gret EXCEPT ![c] = <<radix2Factors[loc[c].input_len]>>]
  /\ radix2Lock' = [radix2Lock EXCEPT !.readers = @ \ {c}]
  /\ Goto(c, "idle")
  /\ SetLoc(c, NoLocals)
  /\ UNCHANGED <<bluesteinLock, pkgVars, otherVars>>

\* mutant: the shared lock is kept when the exclusive lock is requested
R2RUnlockKeeps(c) ==
  /\ At(c, "r2.runlock")
  /\ radix2Lock' = radix2Lock
  /\ Goto(c, "r2.lock")
  /\ UNCHANGED <<bluesteinLock, loc, gret, pkgVars, otherVars>>

\* radix2Lock.RUnlock() before radix2Lock.Lock()
R2RUnlock(c) ==
  /\ At(c, "r2.runlock")
  /\ radix2Lock' = [radix2Lock EXCEPT !.readers = @ \ {c}]
  /\ Goto(c, "r2.lock")
  /\ UNCHANGED <<bluesteinLock, loc, gret, pkgVars, otherVars>>

R2Lock(c) ==
  /\ At(c, "r2.lock")
  /\ CanLock(radix2Lock)
  /\ radix2Lock' = [radix2Lock EXCEPT !.writer = c]
  /\ Goto(c, "r2.recheck")
  /\ UNCHANGED <<bluesteinLock, loc, gret, pkgVars, otherVars>>

\* if !hasRadix2Factors(input_len) { for i, p := 8, 4; ...
R2Recheck(c) ==
  /\ At(c, "r2.recheck")
  /\ IF hasRadix2Factors(radix2Factors, loc[c].input_len)
       THEN Goto(c, "r2.wret") /\ UNCHANGED loc
       ELSE Goto(c, "r2.loop") /\ SetLoc(c, [loc[c] EXCEPT !.i = 8, !.p = 4])
  /\ UNCHANGED <<radix2Lock, bluesteinLock, gret, pkgVars, otherVars>>

\* the test i <= input_len, and if radix2Factors[i] == nil the make
R2Loop(c) ==
  /\ At(c, "r2.loop")
  /\ LET l == loc[c] IN
       IF l.i <= l.input_len
         THEN IF radix2Factors[l.i] = Nil
                THEN /\ radix2Factors' = [radix2Factors EXCEPT ![l.i] = Make(l.i)]
                     /\ SetLoc(c, [l EXCEPT !.n = 0, !.j = 0])
                     /\ Goto(c, "r2.even")
                ELSE /\ SetLoc(c, [l EXCEPT !.i = 2 * l.i, !.p = l.i])
                     /\ UNCHANGED <<gpc, radix2Factors>>
         ELSE /\ Goto(c, "r2.wret")
              /\ UNCHANGED <<loc, radix2Factors>>
  /\ UNCHANGED <<radix2Lock, bluesteinLock, gret, bluesteinFactors,
                 bluesteinInvFactors, otherVars>>

\* mutant: the even entries are read from the half-size table at n, not at j
R2EvenSameIndex(c) ==
  /\ At(c, "r2.even")
  /\ LET l == loc[c] IN
       IF l.n < l.i
         THEN /\ radix2Factors' = Store(radix2Factors, l.i, l.n,
                                        radix2Factors[l.p][(l.n % l.p) + 1])
              /\ SetLoc(c, [l EXCEPT !.n = l.n + 2, !.j = l.j + 1])
              /\ UNCHANGED gpc
         ELSE /\ SetLoc(c, [l EXCEPT !.n = 1, !.j = 0])
              /\ Goto(c, "r2.odd")
              /\ UNCHANGED radix2Factors
  /\ UNCHANGED <<radix2Lock, bluesteinLock, gret, bluesteinFactors,
                 bluesteinInvFactors, otherVars>>

\* for n, j := 0, 0; n < i; n, j = n+2, j+1 : one iteration
R2Even(c) ==
  /\ At(c, "r2.even")
  /\ LET l == loc[c] IN
       IF l.n < l.i
         THEN /\ radix2Factors' = Store(radix2Factors, l.i, l.n, radix2Factors[l.p][l.j + 1])
              /\ SetLoc(c, [l EXCEPT !.n = l.n + 2, !.j = l.j + 1])
              /\ UNCHANGED gpc
         ELSE /\ SetLoc(c, [l EXCEPT !.n = 1, !.j = 0])
              /\ Goto(c, "r2.odd")
              /\ UNCHANGED radix2Factors
  /\ UNCHANGED <<radix2Lock, bluesteinLock, gret, bluesteinFactors,
                 bluesteinInvFactors, otherVars>>

\* for n := 1; n < i; n += 2 : one iteration; after the last, i, p = i<<1, i
R2Odd(c) ==
  /\ At(c, "r2.odd")
  /\ LET l == loc[c] IN
       IF l.n < l.i
         THEN /\ radix2Factors' = Store(radix2Factors, l.i, l.n, Twiddle(l.i, l.n))
              /\ SetLoc(c, [l EXCEPT !.n = l.n + 2])
              /\ UNCHANGED gpc
         ELSE /\ SetLoc(c, [l EXCEPT !.i = 2 * l.i, !.p = l.i, !.n = 0])
              /\ Goto(c, "r2.loop")
              /\ UNCHANGED radix2Factors
  /\ UNCHANGED <<radix2Lock, bluesteinLock, gret, bluesteinFactors,
                 bluesteinInvFactors, otherVars>>

\* return radix2Factors[input_len], then the deferred Unlock
R2WriteReturn(c) ==
  /\ At(c, "r2.wret")
  /\ gret' = [gret EXCEPT ![c] = <<radix2Factors[loc[c].input_len]>>]
  /\ radix2Lock' = [radix2Lock EXCEPT !.writer = 0]
  /\ Goto(c, "idle")
  /\ SetLoc(c, NoLocals)
  /\ UNCHANGED <<bluesteinLock, pkgVars, otherVars>>

CallGetBluestein(c) ==
  \E L \in BluesteinArgs :
    /\ At(c, "idle")
    /\ Goto(c, "bl.rlock")
    /\ SetLoc(c, [NoLocals EXCEPT !.input_len = L,
                                 !.cached = hasBluesteinFactors(bluesteinFactors, L)])
    /\ gret' = [gret EXCEPT ![c] = Nil]
    /\ UNCHANGED <<radix2Lock, bluesteinLock, pkgVars, otherVars>>

BlRLock(c) ==
  /\ At(c, "bl.rlock")
  /\ CanRLock(bluesteinLock)
  /\ bluesteinLock' = [bluesteinLock EXCEPT !.readers = @ \cup {c}]
  /\ Goto(c, "bl.check")
  /\ UNCHANGED <<radix2Lock, loc, gret, pkgVars, otherVars>>

BlCheck(c) ==
  /\ At(c, "bl.check")
  /\ Goto(c, IF hasBluesteinFactors(bluesteinFactors, loc[c].input_len)
               THEN "bl.rret" ELSE "bl.runlock")
  /\ UNCHANGED <<radix2Lock, bluesteinLock, loc, gret, pkgVars, otherVars>>

\* return bluesteinFactors[input_len], bluesteinInvFactors[input_len], then
\* the deferred RUnlock
BlReadReturn(c) ==
  /\ At(c, "bl.rret")
  /\ gret' = [gret EXCEPT ![c] = <<bluesteinFactors[loc[c].input_len],
                                    bluesteinInvFactors[loc[c].input_len]>>]
  /\ bluesteinLock' = [bluesteinLock EXCEPT !.readers = @ \ {c}]
  /\ Goto(c, "idle")
  /\ SetLoc(c, NoLocals)
  /\ UNCHANGED <<radix2Lock, pkgVars, otherVars>>

BlRUnlock(c) ==
  /\ At(c, "bl.runlock")
  /\ bluesteinLock' = [bluesteinLock EXCEPT !.readers = @ \ {c}]
  /\ Goto(c, "bl.lock")
  /\ UNCHANGED <<radix2Lock, loc, gret, pkgVars, otherVars>>

BlLock(c) ==
  /\ At(c, "bl.lock")
  /\ CanLock(bluesteinLock)
  /\ bluesteinLock' = [bluesteinLock EXCEPT !.writer = c]
  /\ Goto(c, "bl.recheck")
  /\ UNCHANGED <<radix2Lock, loc, gret, pkgVars, otherVars>>

\* mutant: the writer does not look again and makes the two tables anew
BlRecheckBlind(c) ==
  /\ At(c, "bl.recheck")
  /\ LET L == loc[c].input_len IN
       /\ bluesteinFactors' = [bluesteinFactors EXCEPT ![L] = Make(L)]
       /\ bluesteinInvFactors' = [bluesteinInvFactors EXCEPT ![L] = Make(L)]
       /\ SetLoc(c, [loc[c] EXCEPT !.i = 0])
       /\ Goto(c, "bl.fill")
  /\ UNCHANGED <<radix2Lock, bluesteinLock, gret, radix2Factors, otherVars>>

\* if !hasBluesteinFactors(input_len) : the two makes
BlRecheck(c) ==
  /\ At(c, "bl.recheck")
  /\ LET L == loc[c].input_len IN
       IF hasBluesteinFactors(bluesteinFactors, L)
         THEN /\ Goto(c, "bl.wret")
              /\ UNCHANGED <<loc, bluesteinFactors, bluesteinInvFactors>>
         ELSE /\ bluesteinFactors' = [bluesteinFactors EXCEPT ![L] = Make(L)]
              /\ bluesteinInvFactors' = [bluesteinInvFactors EXCEPT ![L] = Make(L)]
              /\ SetLoc(c, [loc[c] EXCEPT !.i = 0])
              /\ Goto(c, "bl.fill")
  /\ UNCHANGED <<radix2Lock, bluesteinLock, gret, radix2Factors, otherVars>>

\* for i := 0; i < input_len; i++ : one iteration
BlFill(c) ==
  /\ At(c, "bl.fill")
  /\ LET l == loc[c] IN
       IF l.i < l.input_len
         THEN /\ bluesteinFactors' =
                   Store(bluesteinFactors, l.input_len, l.i, Chirp(l.input_len, l.i))
              /\ bluesteinInvFactors' =
                   Store(bluesteinInvFactors, l.input_len, l.i, InvChirp(l.input_len, l.i))
              /\ SetLoc(c, [l EXCEPT !.i = l.i + 1])
              /\ UNCHANGED gpc
         ELSE /\ Goto(c, "bl.wret")
              /\ UNCHANGED <<loc, bluesteinFactors, bluesteinInvFactors>>
  /\ UNCHANGED <<radix2Lock, bluesteinLock, gret, radix2Factors, otherVars>>

\* return the two tables, then the deferred Unlock
BlWriteReturn(c) ==
  /\ At(c, "bl.wret")
  /\ gret' = [gret EXCEPT ![c] = <<bluesteinFactors[loc[c].input_len],
                                    bluesteinInvFactors[loc[c].input_len]>>]
  /\ bluesteinLock' = [bluesteinLock EXCEPT !.writer = 0]
  /\ Goto(c, "idle")
  /\ SetLoc(c, NoLocals)
  /\ UNCHANGED <<radix2Lock, pkgVars, otherVars>>

InitCache ==
  /\ InitPkg /\ InitApi /\ InitPool /\ InitEng /\ InitLock /\ InitRest
  /\ gomaxprocs = 1

NextCache ==
  \E c \in Callers :
    \/ CallGetRadix2(c) \/ R2RLock(c) \/ R2Check(c) \/ R2ReadReturn(c)
    \/ R2RUnlock(c) \/ R2Lock(c) \/ R2Recheck(c) \/ R2Loop(c)
    \/ R2Even(c) \/ R2Odd(c) \/ R2WriteReturn(c)
    \/ CallGetBluestein(c) \/ BlRLock(c) \/ BlCheck(c) \/ BlReadReturn(c)
    \/ BlRUnlock(c) \/ BlLock(c) \/ BlRecheck(c) \/ BlFill(c)
    \/ BlWriteReturn(c)

SpecCache == InitCache /\ [][NextCache]_vars

(***************************************************************************)
(* Properties of the facade (specification Spec).                          *)
(***************************************************************************)
Returned(op) == call.op = op /\ ret.st \in {"ok", "panic"}

\* C1: Convolve(x, y) with len(x) # len(y) panics with "arrays not of equal
\* size" before anything else happens: no transform is started, the three
\* cache maps are left as they were and no value is returned.
C1_ConvolveMismatch ==
  [][(ret.st = "pending" /\ call.op = "Convolve" /\ Len(call.x) # Len(call.y))
       => /\ ret'.st = "panic"
          /\ ret'.msg = "arrays not of equal size"
          /\ ret'.val = Nil
          /\ transforms' = 0
          /\ UNCHANGED pkgVars]_vars

C1_Witness ==
  /\ Returned("Convolve") /\ Len(call.x) = 3 /\ Len(call.y) = 8
  /\ ret.st = "panic" /\ radix2Factors[8] = Nil

\* C2: FFT, IFFT and Convolve (operands of equal length) return normally on
\* every input of length 0 or 1: the empty sequence for length 0, the
\* identity result for length 1.
C2_DegenerateSucceeds ==
  (/\ ret.st \in {"ok", "panic"}
   /\ call.op \in {"FFT", "IFFT", "Convolve"}
   /\ Len(call.x) <= 1
   /\ call.op = "Convolve" => Len(call.y) = Len(call.x))
  => /\ ret.st = "ok"
     /\ Len(ret.val) = Len(call.x)
     /\ (Len(call.x) = 1 /\ call.op # "Convolve") => ret.val = call.x
     /\ (Len(call.x) = 1 /\ call.op = "Convolve")
          => ret.val = <<CMul(call.x[1], call.y[1])>>

\* C2 for FFT alone, the one function with the length <= 1 case
C2_FFTDegenerate ==
  (Returned("FFT") /\ Len(call.x) <= 1) => (ret.st = "ok" /\ ret.val = call.x)

\* C3: IFFT(FFT(X)) = X and FFT(IFFT(X)) = X for every sequence X.
C3_RoundTrip ==
  /\ Returned("FFT") =>
       LET back == IFFT(ret.val, PkgState)
       IN  ret.st = "ok" /\ back.ok /\ back.val = call.x
  /\ Returned("IFFT") =>
       /\ ret.st = "ok"
       /\ FFT(ret.val, PkgState).val = call.x

\* C3 on the inputs of length >= 1
C3_RoundTripNonEmpty ==
  /\ (Returned("FFT") /\ Len(call.x) >= 1) =>
       LET back == IFFT(ret.val, PkgState)
       IN  ret.st = "ok" /\ back.ok /\ back.val = call.x
  /\ (Returned("IFFT") /\ Len(call.x) >= 1) =>
       /\ ret.st = "ok"
       /\ FFT(ret.val, PkgState).val = call.x

\* the DFT by its definition: X[k] = sum over n of x[n] * w^(n*k), w = e^(-2*pi*i/L)
RECURSIVE DFTSum(_, _, _, _)
DFTSum(a, k, m, acc) ==
  IF m >= Len(a) THEN acc
  ELSE DFTSum(a, k, m + 1,
              CAdd(acc, CMul(a[m + 1], Twiddle(Len(a), (m * k) % Len(a)))))

DFT(a) == Force([k \in 1..Len(a) |-> DFTSum(a, k - 1, 0, ZeroC)])

\* C4: on every input of length 2 or 4 the radix-2 result is the DFT of the
\* input; FFT([1,2,3,4]) = [10, -2+2i, -2, -2-2i],
\* FFT([1,3,5,7]) = [16, -4+4i, -4, -4-4i], FFT([0,1,0,0]) = [1, -i, -1, i].
C4_Radix2IsDFT ==
  Returned("FFT") =>
    /\ Len(call.x) \in {2, 4} => (ret.st = "ok" /\ ret.val = DFT(call.x))
    /\ call.x = Reals(<<1, 2, 3, 4>>)
         => ret.val = <<Gauss(10, 0), Gauss(-2, 2), Gauss(-2, 0), Gauss(-2, -2)>>
    /\ call.x = Reals(<<1, 3, 5, 7>>)
         => ret.val = <<Gauss(16, 0), Gauss(-4, 4), Gauss(-4, 0), Gauss(-4, -4)>>
    /\ call.x = Reals(<<0, 1, 0, 0>>)
         => ret.val = <<Gauss(1, 0), Gauss(0, -1), Gauss(-1, 0), Gauss(0, 1)>>

C4_Witness ==
  /\ Returned("FFT") /\ call.x = Reals(<<1, 2, 3, 4>>)
  /\ ret.val[2] = Gauss(-2, 2)

\* C5: the FFT of the impulse [1,0,...,0] of any length N >= 1 is N ones; on
\* the Bluestein path chirp[i] * invChirp[i] = 1 for every cached chirp table
\* and the convolution with the impulse returns the other operand unchanged.
C5_Impulse ==
  /\ (Returned("FFT") /\ Len(call.x) >= 1 /\ call.x = Impulse(Len(call.x)))
       => (ret.st = "ok" /\ ret.val = Ones(Len(call.x)))
  /\ \A L \in CacheKeys :
       bluesteinFactors[L] # Nil =>
         \A i \in 1..L :
           CMul(bluesteinFactors[L][i], bluesteinInvFactors[L][i]) = OneC
  /\ (Returned("Convolve") /\ Len(call.x) = Len(call.y) /\ Len(call.x) >= 1
        /\ call.x = Impulse(Len(call.x)))
       => (ret.st = "ok" /\ ret.val = call.y)

C5_Witness ==
  /\ Returned("FFT") /\ call.x = Impulse(3) /\ ret.val = Ones(3)
  /\ bluesteinFactors[3] # Nil /\ transforms = 5

(***************************************************************************)
(* Properties of the radix-2 engine (SpecEngine, SpecEngineFair)           *)
(***************************************************************************)
\* the sequential execution: every block of every stage in index order
Sequential(a) ==
  stageLoop(reorderData(a), Make(Len(a)), 2, Len(a), radix2After(SeedRadix2, Len(a))[Len(a)])

BusyWorkers == {w \in Workers : Busy(w)}

\* C6: whatever the worker count and the schedule of the workers, the value
\* radix2FFT returns is the output of the sequential execution, and no
\* worker faults.
C6_ScheduleIndependent ==
  /\ \A w \in Workers : wpc[w] # "panic"
  /\ dpc = "return" => r = Sequential(x)

C6_Witness ==
  /\ dpc = "return" /\ lx = 16 /\ num_workers = 3
  /\ r = Sequential(x) /\ r # x

C6_WitnessManyWorkers ==
  /\ dpc = "return" /\ lx = 2 /\ num_workers = 3 /\ r = Sequential(x)

\* jobs of the current stage that have not yet been consumed as a result
Outstanding == Len(jobs) + Cardinality(BusyWorkers) + results

Quiescent == jobs = << >> /\ BusyWorkers = {} /\ results = 0

BarrierInv ==
  /\ \A i \in 1..Len(jobs) : jobs[i].stage = stage
  /\ \A w \in BusyWorkers : work[w].stage = stage
  /\ Outstanding > 0 => dpc \in {"chunk", "collect"}
  /\ dpc = "chunk" => workers_spawned = Outstanding
  /\ dpc = "collect" => workers_spawned = Outstanding + n

BarrierStep ==
  /\ (stage' # stage \/ s_2' # s_2 \/ blocks' # blocks \/ r' # r) => Quiescent
  /\ (dpc = "collect" /\ dpc' = "stage") => (n = workers_spawned /\ r' = t /\ t' = r)

\* C7: every job in the channel or in a worker's hands belongs to the
\* current stage; stage, s_2, blocks and r change only when no job of the
\* stage is outstanding; when the caller leaves the collecting loop it has
\* received as many results as it sent jobs.
C7_StageBarrier == []BarrierInv /\ [][BarrierStep]_vars

C7_Witness ==
  /\ dpc = "collect" /\ stage = 4 /\ stagesRun = 1 /\ lx = 16
  /\ workers_spawned = 2 /\ Cardinality(BusyWorkers) = 1 /\ n = 1

\* C8: under fair scheduling a call of radix2FFT returns, after log2(lx)
\* stages; no stage sends more than lx jobs, and end never passes lx.
C8_RunsToCompletion ==
  /\ [](workers_spawned <= lx /\ end <= lx /\ Len(jobs) <= lx /\ results <= lx)
  /\ [](dpc = "return" => (stagesRun = log2(lx) /\ stage = 2 * lx))
  /\ (dpc # "idle") ~> (dpc = "idle" /\ out # Nil)

C8_Witness ==
  /\ dpc = "idle" /\ out # Nil /\ lx = 16 /\ stagesRun = 4 /\ num_workers = 3

\* the worker count SetWorkerPoolSize(lastN) asks for
Effective == IF lastN <= 0 THEN gomaxprocs ELSE lastN

\* C9: a transform started after SetWorkerPoolSize(n) starts GOMAXPROCS
\* workers when n <= 0 and n workers when n > 0, at least one in every case.
C9_PoolSize ==
  [][(dpc = "idle" /\ dpc' = "stage") =>
       /\ num_workers' = Effective
       /\ Cardinality({w \in Workers : wpc'[w] = "recv"}) = Effective
       /\ num_workers' >= 1]_vars

C9_Witness ==
  /\ dpc = "stage" /\ stagesRun = 0 /\ lastN = -1 /\ gomaxprocs = 2 /\ num_workers = 2

(***************************************************************************)
(* Properties of the caches (SpecCache)                                    *)
(***************************************************************************)
\* every entry of the table has been stored (no stored factor is 0)
Filled(row) == \A k \in 1..Len(row) : row[k] # ZeroC

Present(tab, L) == tab[L] # Nil

\* the finished table of length L
Radix2Table(L) == Force([k \in 1..L |-> Twiddle(L, k - 1)])

\* what a goroutine holding the lock shared, or one that finds the lock
\* free, can read; what was returned; what the writer leaves behind
CacheInv ==
  /\ (radix2Lock.readers # {} \/ radix2Lock.writer = 0) =>
       \A L \in CacheKeys : Filled(radix2Factors[L])
  /\ (bluesteinLock.readers # {} \/ bluesteinLock.writer = 0) =>
       \A L \in CacheKeys :
         /\ Filled(bluesteinFactors[L]) /\ Filled(bluesteinInvFactors[L])
         /\ Len(bluesteinFactors[L]) = Len(bluesteinInvFactors[L])
  /\ \A c \in Callers :
       /\ \A i \in 1..Len(gret[c]) : Filled(gret[c][i])
       /\ At(c, "r2.wret") =>
            radix2Factors[loc[c].input_len] \in {Nil, Radix2Table(loc[c].input_len)}
       /\ At(c, "bl.wret") =>
            /\ bluesteinFactors[loc[c].input_len] = BuildChirp(loc[c].input_len)
            /\ bluesteinInvFactors[loc[c].input_len] = BuildInvChirp(loc[c].input_len)

\* a table is not removed, and a finished table is not touched
CacheStep ==
  \A L \in CacheKeys :
    /\ Present(radix2Factors, L) =>
         /\ Present(radix2Factors', L)
         /\ Filled(radix2Factors[L]) => radix2Factors'[L] = radix2Factors[L]
    /\ Present(bluesteinFactors, L) =>
         /\ Present(bluesteinFactors', L)
         /\ Filled(bluesteinFactors[L]) => bluesteinFactors'[L] = bluesteinFactors[L]
    /\ Present(bluesteinInvFactors, L) =>
         /\ Present(bluesteinInvFactors', L)
         /\ Filled(bluesteinInvFactors[L])
              => bluesteinInvFactors'[L] = bluesteinInvFactors[L]

\* C10: a goroutine that holds a cache's lock shared, and a caller to which a
\* table was returned, sees only finished tables; a table present for a
\* length is never removed and a finished table never changes.
C10_NoPartialTable == []CacheInv /\ [][CacheStep]_vars

\* a reader inside the lock while tables built by another goroutine are there
C10_Witness ==
  /\ 2 \in radix2Lock.readers /\ loc[2].input_len = 8
  /\ Len(gret[1]) = 1 /\ Len(gret[1][1]) = 16
  /\ gret[1][1] = Radix2Table(16) /\ radix2Factors[8] = Radix2Table(8)

\* a writer in the middle of a table while the other goroutine waits at RLock
C10_WitnessWaiting ==
  /\ radix2Lock.writer = 1 /\ Present(radix2Factors, 8)
  /\ ~Filled(radix2Factors[8])
  /\ gpc[2] = "r2.rlock" /\ loc[2].input_len = 8

C10_WitnessBluestein ==
  /\ 2 \in bluesteinLock.readers /\ Len(gret[1]) = 2
  /\ gret[1] = <<BuildChirp(6), BuildInvChirp(6)>>

\* the positions of a call that has only the shared lock in hand
SharedPath == {"r2.rlock", "r2.check", "r2.rret", "bl.rlock", "bl.check", "bl.rret"}

\* a call for a length that was cached when it began stays on the shared path;
\* a returned table is the one the cache holds for its length
OnceInv ==
  \A c \in Callers :
    /\ loc[c].cached =>
         /\ gpc[c] \in SharedPath
         /\ radix2Lock.writer # c /\ bluesteinLock.writer # c
    /\ (Len(gret[c]) = 1 /\ gret[c][1] # Nil) =>
         gret[c][1] = radix2Factors[Len(gret[c][1])]
    /\ Len(gret[c]) = 2 =>
         gret[c] = <<bluesteinFactors[Len(gret[c][1])],
                     bluesteinInvFactors[Len(gret[c][1])]>>

\* the table tab is made only where there was none, and an entry is stored
\* only where none was stored before
MadeOnce(tab, tabNext, L) ==
  /\ (tabNext[L] # tab[L] /\ tabNext[L] = Make(L)) => tab[L] = Nil
  /\ (tab[L] # Nil /\ tabNext[L] # tab[L]) =>
       /\ Len(tabNext[L]) = Len(tab[L])
       /\ \A k \in 1..Len(tab[L]) : tabNext[L][k] # tab[L][k] => tab[L][k] = ZeroC

OnceStep ==
  \A L \in CacheKeys :
    /\ MadeOnce(radix2Factors, radix2Factors', L)
    /\ MadeOnce(bluesteinFactors, bluesteinFactors', L)
    /\ MadeOnce(bluesteinInvFactors, bluesteinInvFactors', L)

\* C11: when several goroutines first ask for the same length, its table is
\* made once and each entry stored once (the writer looks again under the
\* exclusive lock); every caller gets the table the cache holds; a call for
\* a length already cached never leaves the shared-lock path.
C11_ComputedOnce == []OnceInv /\ [][OnceStep]_vars

\* both goroutines asked for length 8 before it was cached; the first built
\* it, the second found it at the re-check and computed nothing
C11_Witness ==
  /\ gpc[2] = "r2.wret" /\ loc[2].input_len = 8 /\ loc[2].i = 0 /\ ~loc[2].cached
  /\ Len(gret[1]) = 1 /\ Len(gret[1][1]) = 8
  /\ gret[1][1] = radix2Factors[8]

C11_WitnessBluestein ==
  /\ gpc[2] = "bl.wret" /\ loc[2].input_len = 6 /\ loc[2].i = 0 /\ ~loc[2].cached
  /\ Len(gret[1]) = 2 /\ gret[1][1] = bluesteinFactors[6]

C11_WitnessShared ==
  /\ gpc[1] = "r2.rret" /\ loc[1].cached /\ loc[1].input_len = 16
  /\ gpc[2] = "r2.rret" /\ loc[2].cached

\* the L roots of unity e^(-2*pi*i*k/L), k = 0..L-1, in order
RootsOfUnity(L) ==
  Force([k \in 1..L |->
           Unit((RootOrder - (((k - 1) * (RootOrder \div L)) % RootOrder)) % RootOrder)])

\* a call of getRadix2Factors about to return, for a power of two >= least
ReturnsRadix2(c, least) ==
  /\ gpc[c] \in {"r2.rret", "r2.wret"}
  /\ IsPowerOf2(loc[c].input_len) /\ loc[c].input_len >= least

TwiddleInv(least) ==
  \A c \in Callers :
    ReturnsRadix2(c, least) =>
      radix2Factors[loc[c].input_len] = RootsOfUnity(loc[c].input_len)

\* the steps of a call that found its table cached leave radix2Factors alone
TwiddleStep ==
  \A c \in Callers :
    (loc[c].cached /\ (gpc'[c] # gpc[c] \/ loc'[c] # loc[c]))
      => radix2Factors' = radix2Factors

\* C12 as stated: for every power of two L >= 2, getRadix2Factors(L) returns
\* the L roots of unity e^(-2*pi*i*k/L).
C12_TwiddleTableFrom2 == TwiddleInv(2)

\* C12, amended: for every power of two L >= 4, getRadix2Factors(L) returns
\* the table of exactly L entries whose k-th entry is e^(-2*pi*i*k/L), and
\* a call that finds the table cached computes nothing; for L = 2 no table
\* is kept and the call returns nil.
C12_TwiddleTable ==
  /\ []TwiddleInv(4)
  /\ [](\A c \in Callers :
          ReturnsRadix2(c, 2) /\ loc[c].input_len = 2 => radix2Factors[2] = Nil)
  /\ [][TwiddleStep]_vars

\* getRadix2Factors(16) from the seed: the tables for 8 and 16 were built
C12_Witness ==
  /\ gpc[1] = "r2.wret" /\ loc[1].input_len = 16 /\ loc[1].i = 32
  /\ Len(radix2Factors[16]) = 16
  /\ radix2Factors[16] = RootsOfUnity(16)
  /\ radix2Factors[16][2] # radix2Factors[8][2]


(***************************************************************************)
(* The multi-dimensional transforms: computeFFT2 and computeFFTN           *)
(* (src/fft/fft.go), one call at a time, statement by statement.           *)
(***************************************************************************)
\* the longest axis and the highest rank of the tensors tried
MaxDim == 3

MaxRank == 3

(***************************************************************************)
(* dsputils.Matrix, as the specification describes it: a list of           *)
(* product(dims) elements with a shape vector, no axis of length 0, and    *)
(* lines along one axis read and written with the other indices fixed.     *)
(* The elements lie in row-major order (fftnTests, src/fft/fft_test.go).   *)
(***************************************************************************)
RECURSIVE Product(_)
Product(dims) == IF dims = << >> THEN 1 ELSE Head(dims) * Product(Tail(dims))

\* a tensor cannot be made with an axis of length 0
MakeMatrix(list, dims) ==
  IF \E a \in 1..Len(dims) : dims[a] < 1 THEN Panic("EmptyInput", PkgState)
  ELSE Done([list |-> list, dims |-> dims], PkgState)

MakeEmptyMatrix(dims) == [list |-> Make(Product(dims)), dims |-> dims]

\* the shape, as a slice of its own
Dimensions(m) == m.dims

\* the same elements and shape in a new matrix
Copy(m) == [list |-> m.list, dims |-> m.dims]

\* the distance in the list between neighbours along axis a (1-based)
Offset(dims, a) == Product(SubSeq(dims, a + 1, Len(dims)))

\* the axis a line runs along: the one marked -1
FreeAxis(d) == CHOOSE a \in 1..Len(d) : d[a] = -1

RECURSIVE OffsetSum(_, _, _)
OffsetSum(dims, d, k) ==
  IF k > Len(d) THEN 0
  ELSE (IF d[k] = -1 THEN 0 ELSE d[k] * Offset(dims, k)) + OffsetSum(dims, d, k + 1)

\* the places in the list (1-based) of the line d
Indexes(dims, d) ==
  Force([j \in 1..dims[FreeAxis(d)] |->
           OffsetSum(dims, d, 1) + (j - 1) * Offset(dims, FreeAxis(d)) + 1])

\* m.Dim(d): the line d of m
Dim(m, d) ==
  LET inds == Indexes(m.dims, d)
  IN  Force([j \in 1..Len(inds) |-> m.list[inds[j]]])

\* m.SetDim(x, d): the line d of m becomes x
SetDim(m, line, d) ==
  LET inds == Indexes(m.dims, d)
  IN  [m EXCEPT !.list =
         Force([k \in 1..Len(m.list) |->
                  IF \E j \in 1..Len(inds) : inds[j] = k
                  THEN line[CHOOSE j \in 1..Len(inds) : inds[j] = k]
                  ELSE m.list[k]])]

(***************************************************************************)
(* decrDim(x, d): the odometer step.  x holds -1 on the free axis; the     *)
(* first other axis counts down fastest, and an axis at 0 is set back to   *)
(* d and carries into the next one.  It returns whether a next line        *)
(* exists, with x as it leaves it.                                         *)
(***************************************************************************)
RECURSIVE carryLoop(_, _, _)
carryLoop(xs, d, i) ==
  IF i >= Len(xs) THEN [ok |-> FALSE, xs |-> xs]
  ELSE IF xs[i + 1] = -1 THEN carryLoop(xs, d, i + 1)
  ELSE IF xs[i + 1] = 0 THEN carryLoop([xs EXCEPT ![i + 1] = d[i + 1]], d, i + 1)
  ELSE [ok |-> TRUE, xs |-> [xs EXCEPT ![i + 1] = @ - 1]]

RECURSIVE rangeLoop(_, _, _)
rangeLoop(xs, d, k) ==
  IF k >= Len(xs) THEN [ok |-> FALSE, xs |-> xs]
  ELSE IF xs[k + 1] = -1 THEN rangeLoop(xs, d, k + 1)
  ELSE IF xs[k + 1] = 0 THEN carryLoop(xs, d, k)
  ELSE [ok |-> TRUE, xs |-> [xs EXCEPT ![k + 1] = @ - 1]]

\* mutant: an axis at 0 ends the count instead of carrying into the next
decrDimNoCarry(xs, d) ==
  LET first == rangeLoop(xs, d, 0)
  IN  IF \E a \in 1..Len(xs) : xs[a] > 0 /\ \A j \in 1..(a - 1) : xs[j] = -1
      THEN first
      ELSE [ok |-> FALSE, xs |-> xs]

decrDim(xs, d) == rangeLoop(xs, d, 0)

(***************************************************************************)
(* Inputs: tensors of every shape up to MaxRank axes of length up to       *)
(* MaxDim (length 0 included), and slices of slices, ragged ones included. *)
(***************************************************************************)
Shapes == UNION {[1..k -> 0..MaxDim] : k \in 1..MaxRank}

\* the input of fftnTests (src/fft/fft_test.go)
FFTNTestIn == Reals(<<4, 2, 3, 8, 5, 6, 7, 2, 13, 24, 13, 17>>)

FFTNTestDim == <<2, 2, 3>>

\* element k of a list is k (Ramp), or 1 at the last place and 0 elsewhere
Spike(L) == Force([k \in 1..L |-> IF k = L THEN OneC ELSE ZeroC])

Lists(L) == {Ramp(L), Spike(L)}

\* the rows of a slice of slices: row j has lens[j] elements
RowsOf(list, lens) ==
  Force([j \in 1..Len(lens) |->
     Force([i \in 1..lens[j] |-> list[(j - 1) * MaxDim + i]])])

\* every profile of row lengths, the ragged ones included
RowLens == UNION {[1..k -> 0..MaxDim] : k \in 0..MaxDim}

Grids == {RowsOf(list, lens) : list \in Lists(MaxDim * MaxDim), lens \in RowLens}

Ragged(g) == \E j \in 1..Len(g) : Len(g[j]) # Len(g[1])

\* the elements of a rectangular slice of slices, row after row
Flatten(g) ==
  IF Len(g) = 0 THEN << >>
  ELSE Force([k \in 1..(Len(g) * Len(g[1])) |->
                g[((k - 1) \div Len(g[1])) + 1][((k - 1) % Len(g[1])) + 1]])

\* fftFunc of computeFFT2 and computeFFTN
fftFunc(op, a, st) == IF op \in {"FFT2", "FFTN"} THEN FFT(a, st) ELSE IFFT(a, st)

\* a 1-D transform has run: the caches and the count of transforms follow
Transformed(res) ==
  /\ radix2Factors' = res.st.r2
  /\ bluesteinFactors' = res.st.bf
  /\ bluesteinInvFactors' = res.st.bif
  /\ transforms' = transforms + res.st.n

\* the call panics
Throw(msg) ==
  /\ ret' = [st |-> "panic", val |-> Nil, msg |-> msg]
  /\ mpc' = "done"

gridRest == <<poolVars, engVars, lockVars, wavVars, seg, rev, stageVars, ali, smp>>

(***************************************************************************)
(* computeFFT2                                                             *)
(***************************************************************************)
CallFFT2 ==
  \E g \in Grids, op \in {"FFT2", "IFFT2"} :
    /\ mpc = "idle"
    /\ call' = [op |-> op, x |-> g, y |-> Nil]
    /\ ret' = Pending
    /\ mpc' = "2.begin"
    /\ UNCHANGED <<transforms, heap, frame, grid, prev, pkgVars, gridRest>>

\* rows := len(x); the empty check; cols := len(x[0]); r := make(rows)
F2Begin ==
  /\ mpc = "2.begin"
  /\ IF Len(call.x) = 0
     THEN Throw("empty input array") /\ UNCHANGED <<frame, grid>>
     ELSE /\ frame' = [frame EXCEPT !.rows = Len(call.x), !.cols = Len(call.x[1]),
                                    !.i = 0]
          /\ grid' = Force([j \in 1..Len(call.x) |-> Nil])
          /\ mpc' = "2.check"
          /\ UNCHANGED ret
  /\ UNCHANGED <<call, transforms, heap, prev, pkgVars, gridRest>>

\* mutant: only a row shorter than the first one is ragged
F2CheckShorter ==
  /\ mpc = "2.check"
  /\ IF frame.i < frame.rows
     THEN IF Len(call.x[frame.i + 1]) < frame.cols
          THEN Throw("ragged input array") /\ UNCHANGED <<frame, grid>>
          ELSE /\ grid' = [grid EXCEPT ![frame.i + 1] = Make(frame.cols)]
               /\ frame' = [frame EXCEPT !.i = @ + 1]
               /\ UNCHANGED <<mpc, ret>>
     ELSE /\ frame' = [frame EXCEPT !.i = 0]
          /\ mpc' = "2.col"
          /\ UNCHANGED <<grid, ret>>
  /\ UNCHANGED <<call, transforms, heap, prev, pkgVars, gridRest>>

\* one turn of the first loop: the ragged check and r[i] := make(cols)
F2Check ==
  /\ mpc = "2.check"
  /\ IF frame.i < frame.rows
     THEN IF Len(call.x[frame.i + 1]) # frame.cols
          THEN Throw("ragged input array") /\ UNCHANGED <<frame, grid>>
          ELSE /\ grid' = [grid EXCEPT ![frame.i + 1] = Make(frame.cols)]
               /\ frame' = [frame EXCEPT !.i = @ + 1]
               /\ UNCHANGED <<mpc, ret>>
     ELSE /\ frame' = [frame EXCEPT !.i = 0]
          /\ mpc' = "2.col"
          /\ UNCHANGED <<grid, ret>>
  /\ UNCHANGED <<call, transforms, heap, prev, pkgVars, gridRest>>

\* one turn of the second loop: column i is transformed into r
F2Col ==
  /\ mpc = "2.col"
  /\ IF frame.i < frame.cols
     THEN LET col == Force([j \in 1..frame.rows |-> call.x[j][frame.i + 1]])
              res == fftFunc(call.op, col, PkgState)
          IN  /\ Transformed(res)
              /\ IF res.ok
                 THEN /\ grid' = Force([j \in 1..frame.rows |->
                                   [grid[j] EXCEPT ![frame.i + 1] = res.val[j]]])
                      /\ frame' = [frame EXCEPT !.i = @ + 1]
                      /\ UNCHANGED <<mpc, ret>>
                 ELSE Throw(res.msg) /\ UNCHANGED <<frame, grid>>
     ELSE /\ frame' = [frame EXCEPT !.i = 0]
          /\ mpc' = "2.row"
          /\ UNCHANGED <<grid, ret, transforms, pkgVars>>
  /\ UNCHANGED <<call, heap, prev, gridRest>>

\* one turn of the third loop: row i of r is transformed in place
F2Row ==
  /\ mpc = "2.row"
  /\ IF frame.i < frame.rows
     THEN LET res == fftFunc(call.op, grid[frame.i + 1], PkgState)
          IN  /\ Transformed(res)
              /\ IF res.ok
                 THEN /\ grid' = [grid EXCEPT ![frame.i + 1] = res.val]
                      /\ frame' = [frame EXCEPT !.i = @ + 1]
                      /\ UNCHANGED <<mpc, ret>>
                 ELSE Throw(res.msg) /\ UNCHANGED <<frame, grid>>
     ELSE /\ mpc' = "2.ret"
          /\ UNCHANGED <<frame, grid, ret, transforms, pkgVars>>
  /\ UNCHANGED <<call, heap, prev, gridRest>>

\* return r
F2Return ==
  /\ mpc = "2.ret"
  /\ ret' = [st |-> "ok", val |-> grid, msg |-> ""]
  /\ mpc' = "done"
  /\ UNCHANGED <<call, transforms, heap, frame, grid, prev, pkgVars, gridRest>>

(***************************************************************************)
(* computeFFTN.  The input matrix lies at address 1; Copy and              *)
(* MakeEmptyMatrix make the matrices at addresses 2 and 3.                 *)
(***************************************************************************)
\* the caller makes the matrix and calls with it
EnterFFTN(op, list, dims) ==
  LET made == MakeMatrix(list, dims)
  IN  /\ call' = [op |-> op, x |-> list, y |-> dims]
      /\ IF made.ok
         THEN /\ heap' = <<made.val, NoMatrix, NoMatrix>>
              /\ frame' = [NoFrame EXCEPT !.m = 1]
              /\ ret' = Pending
              /\ mpc' = "n.begin"
         ELSE /\ Throw(made.msg)
              /\ heap' = <<NoMatrix, NoMatrix, NoMatrix>>
              /\ frame' = NoFrame
      /\ grid' = Nil
      /\ transforms' = 0
      /\ UNCHANGED <<pkgVars, gridRest>>

CallFFTN ==
  \E dims \in Shapes \cup {FFTNTestDim}, op \in {"FFTN", "IFFTN"} :
    \E list \in Lists(Product(dims)) \cup
                 (IF dims = FFTNTestDim THEN {FFTNTestIn} ELSE {}) :
      /\ mpc = "idle"
      /\ EnterFFTN(op, list, dims)
      /\ prev' = Nil

\* FFT2 has returned: FFTN is called with the same elements
CallFFTNSame ==
  /\ mpc = "done" /\ call.op = "FFT2" /\ ret.st = "ok"
  /\ EnterFFTN("FFTN", Flatten(call.x), <<Len(call.x), Len(call.x[1])>>)
  /\ prev' = ret.val

\* mutant: t is the input matrix itself, not a copy of it
NBeginShared ==
  /\ mpc = "n.begin"
  /\ LET dims == Dimensions(heap[frame.m])
     IN  /\ heap' = [heap EXCEPT ![3] = MakeEmptyMatrix(dims)]
         /\ frame' = [frame EXCEPT !.t = frame.m, !.r = 3, !.n = 0,
                        !.dims = Force([k \in 1..Len(dims) |-> dims[k] - 1])]
  /\ mpc' = "n.axis"
  /\ UNCHANGED <<call, ret, transforms, grid, prev, pkgVars, gridRest>>

\* dims := m.Dimensions(); t := m.Copy(); r := MakeEmptyMatrix(dims);
\* dims[n] -= 1 for every n
NBegin ==
  /\ mpc = "n.begin"
  /\ LET dims == Dimensions(heap[frame.m])
     IN  /\ heap' = [heap EXCEPT ![2] = Copy(heap[frame.m]),
                                 ![3] = MakeEmptyMatrix(dims)]
         /\ frame' = [frame EXCEPT !.t = 2, !.r = 3, !.n = 0,
                        !.dims = Force([k \in 1..Len(dims) |-> dims[k] - 1])]
  /\ mpc' = "n.axis"
  /\ UNCHANGED <<call, ret, transforms, grid, prev, pkgVars, gridRest>>

\* for n := range dims: d := copy of dims with d[n] = -1
NAxis ==
  /\ mpc = "n.axis"
  /\ IF frame.n < Len(frame.dims)
     THEN /\ frame' = [frame EXCEPT !.d = [frame.dims EXCEPT ![frame.n + 1] = -1],
                         !.written = Force([k \in 1..Len(heap[frame.r].list) |-> 0]),
                         !.lines = 0]
          /\ mpc' = "n.line"
     ELSE /\ frame' = [frame EXCEPT !.d = Nil, !.written = Nil, !.lines = 0]
          /\ mpc' = "n.ret"
  /\ UNCHANGED <<call, ret, transforms, heap, grid, prev, pkgVars, gridRest>>

\* r.SetDim(fftFunc(t.Dim(d)), d); if !decrDim(d, dims) { break }
NLine ==
  /\ mpc = "n.line"
  /\ LET res == fftFunc(call.op, Dim(heap[frame.t], frame.d), PkgState)
         inds == Indexes(heap[frame.r].dims, frame.d)
         more == decrDim(frame.d, frame.dims)
     IN  /\ Transformed(res)
         /\ IF res.ok
            THEN /\ heap' = [heap EXCEPT ![frame.r] = SetDim(@, res.val, frame.d)]
                 /\ frame' = [frame EXCEPT
                      !.d = more.xs,
                      !.lines = @ + 1,
                      !.written = Force([k \in 1..Len(@) |->
                          IF \E j \in 1..Len(inds) : inds[j] = k
                          THEN @[k] + 1 ELSE @[k]])]
                 /\ mpc' = IF more.ok THEN "n.line" ELSE "n.swap"
                 /\ UNCHANGED ret
            ELSE Throw(res.msg) /\ UNCHANGED <<heap, frame>>
  /\ UNCHANGED <<call, grid, prev, gridRest>>

\* mutant: the two matrices are not exchanged after a pass
NSwapNone ==
  /\ mpc = "n.swap"
  /\ frame' = [frame EXCEPT !.n = @ + 1]
  /\ mpc' = "n.axis"
  /\ UNCHANGED <<call, ret, transforms, heap, grid, prev, pkgVars, gridRest>>

\* r, t = t, r and the next axis
NSwap ==
  /\ mpc = "n.swap"
  /\ frame' = [frame EXCEPT !.r = frame.t, !.t = frame.r, !.n = @ + 1]
  /\ mpc' = "n.axis"
  /\ UNCHANGED <<call, ret, transforms, heap, grid, prev, pkgVars, gridRest>>

\* return t
NReturn ==
  /\ mpc = "n.ret"
  /\ ret' = [st |-> "ok", val |-> heap[frame.t].list, msg |-> ""]
  /\ mpc' = "done"
  /\ UNCHANGED <<call, transforms, heap, frame, grid, prev, pkgVars, gridRest>>

\* the caller drops the result; the caches stay
ForgetGrid ==
  /\ mpc = "done"
  /\ call' = NoCall /\ ret' = NoRet /\ transforms' = 0
  /\ mpc' = "idle"
  /\ heap' = <<NoMatrix, NoMatrix, NoMatrix>>
  /\ frame' = NoFrame
  /\ grid' = Nil
  /\ prev' = Nil
  /\ UNCHANGED <<pkgVars, gridRest>>

InitMulti ==
  /\ InitPkg /\ InitApi /\ InitPool /\ InitEng /\ InitLock /\ InitRest
  /\ gomaxprocs = 1

NextMulti ==
  \/ CallFFT2 \/ F2Begin \/ F2Check \/ F2Col \/ F2Row \/ F2Return
  \/ CallFFTN \/ CallFFTNSame \/ NBegin \/ NAxis \/ NLine \/ NSwap \/ NReturn
  \/ ForgetGrid

SpecMulti == InitMulti /\ [][NextMulti]_vars

(***************************************************************************)
(* Properties of the multi-dimensional transforms (specification           *)
(* SpecMulti).                                                             *)
(***************************************************************************)
\* the shape of the tensor the call was given
Shape == heap[frame.m].dims

\* the lines along axis a (1-based) of a tensor of the given shape
LinesAlong(shape, a) == Product(shape) \div shape[a]

\* C13: in every pass of computeFFTN over an axis a of a tensor with all
\* dimensions >= 1 no element of the destination is written twice, and when
\* decrDim ends the pass exactly product(dims)/dims[a] lines were
\* transformed and every element was written exactly once; a tensor of
\* rank 1 is one line.
C13_EveryLineOnce ==
  mpc \in {"n.line", "n.swap"} =>
    /\ \A k \in 1..Len(frame.written) : frame.written[k] <= 1
    /\ frame.lines <= LinesAlong(Shape, frame.n + 1)
    /\ mpc = "n.swap" =>
         /\ frame.lines = LinesAlong(Shape, frame.n + 1)
         /\ \A k \in 1..Len(frame.written) : frame.written[k] = 1
         /\ Len(Shape) = 1 => frame.lines = 1

\* the pass over the middle axis of the 2 x 2 x 3 tensor of fftnTests ended
\* after its 6 lines
C13_Witness ==
  /\ mpc = "n.swap" /\ Shape = FFTNTestDim /\ frame.n = 1
  /\ frame.lines = 6
  /\ frame.d = <<1, -1, 2>>

\* a tensor of rank 1 and length 3 was transformed as one line
C13_WitnessRankOne ==
  mpc = "n.swap" /\ Shape = <<3>> /\ frame.lines = 1 /\ transforms > 0

\* a call of FFTN or IFFTN that got its matrix made
InFFTN == call.op \in {"FFTN", "IFFTN"} /\ frame.m = 1

C14_WitnessOdd ==
  /\ InFFTN /\ mpc = "done" /\ ret.st = "ok"
  /\ Len(call.y) = 3 /\ frame.t = 3 /\ ret.val # call.x

\* the 1-D FFT of every line of the tensor mat along axis a (1-based), each
\* line taken on its own; element k lies at place PlaceOn(k) of the line
\* that starts at LineBase(k)
FFTAlong(mat, a) ==
  LET off == Offset(mat.dims, a)
      len == mat.dims[a]
      PlaceOn(k) == ((k - 1) \div off) % len
      LineBase(k) == (k - 1) - PlaceOn(k) * off
      bases == {LineBase(k) : k \in 1..Len(mat.list)}
      done == Force([b \in bases |->
                FFT(Force([j \in 1..len |-> mat.list[b + (j - 1) * off + 1]]),
                    PkgState).val])
  IN  [list |-> Force([k \in 1..Len(mat.list) |-> done[LineBase(k)][PlaceOn(k) + 1]]),
       dims |-> mat.dims]

\* the axes transformed one after the other in the given order
RECURSIVE FFTAxes(_, _)
FFTAxes(mat, order) ==
  IF order = << >> THEN mat ELSE FFTAxes(FFTAlong(mat, Head(order)), Tail(order))

\* every order of the axes 1..k
Orders(k) == {o \in [1..k -> 1..k] : \A a \in 1..k : \E j \in 1..k : o[j] = a}

\* FFT2 or FFTN returned a result for a tensor without empty axis
ReturnedTensor(op) ==
  /\ mpc = "done" /\ ret.st = "ok" /\ call.op = op
  /\ IF op = "FFT2" THEN Len(call.x[1]) > 0 ELSE TRUE

\* the tensor FFT2 was given
GridTensor == [list |-> Flatten(call.x), dims |-> <<Len(call.x), Len(call.x[1])>>]

\* C15: the result of FFTN is the 1-D FFT applied along each axis, in every
\* order of the axes; FFT2 gives on every rectangular input what FFTN gives
\* on the same elements, and rows-then-columns equals columns-then-rows.
C15_Separable ==
  /\ ReturnedTensor("FFTN") =>
       /\ \A o \in Orders(Len(call.y)) :
            ret.val = FFTAxes([list |-> call.x, dims |-> call.y], o).list
       /\ prev # Nil => ret.val = Flatten(prev)
  /\ ReturnedTensor("FFT2") =>
       /\ Flatten(ret.val) = FFTAxes(GridTensor, <<1, 2>>).list
       /\ Flatten(ret.val) = FFTAxes(GridTensor, <<2, 1>>).list

\* FFTN returned for the 2 x 3 elements FFT2 had transformed before, and the
\* result is no copy of the input
C15_Witness ==
  /\ ReturnedTensor("FFTN") /\ prev # Nil
  /\ call.y = <<2, 3>> /\ ret.val # call.x
  /\ ret.val = Flatten(prev)

\* FFTN returned the transform of the tensor of fftnTests: 104 at the origin
\* and -42 at (0, 1, 0), as the test expects
C15_WitnessTest ==
  /\ ReturnedTensor("FFTN") /\ call.x = FFTNTestIn /\ call.y = FFTNTestDim
  /\ ret.val[1] = IntC(104) /\ ret.val[4] = IntC(-42) /\ ret.val[7] = IntC(-48)

\* the input of the call has an axis of length 0: no rows, or rows that are
\* all of zero columns, or a tensor with a 0 in its shape
EmptyAxis ==
  IF call.op \in {"FFT2", "IFFT2"}
  THEN Len(call.x) = 0 \/ \A j \in 1..Len(call.x) : Len(call.x[j]) = 0
  ELSE call.op \in {"FFTN", "IFFTN"} /\ \E a \in 1..Len(call.y) : call.y[a] = 0

EmptyInputFailure == ret.st = "panic" /\ ret.msg \in {"empty input array", "EmptyInput"}

\* C16: a call of FFT2, IFFT2, FFTN or IFFTN whose input has an axis of
\* length 0 (zero rows, or rows of zero columns) ends with the EmptyInput
\* failure and returns no result.
C16_EmptyInputFails == (mpc = "done" /\ EmptyAxis) => EmptyInputFailure

\* the part that holds: zero rows panic with "empty input array" before any
\* transform, and no tensor with an axis of length 0 is made
C16_ZeroRowsFail ==
  (mpc = "done" /\ EmptyAxis /\ (call.op \in {"FFT2", "IFFT2"} => Len(call.x) = 0))
     => EmptyInputFailure /\ transforms = 0

\* FFT2 returned two empty rows for an input of two rows of zero columns
C16_ReturnsEmptyRows ==
  /\ mpc = "done" /\ call.op = "FFT2" /\ call.x = <<Nil, Nil>>
  /\ ret.st = "ok" /\ ret.val = <<Nil, Nil>>

\* IFFT2 of one row of zero columns ended in the panic of IFFT on a row
C16_InverseIndexPanic ==
  /\ mpc = "done" /\ call.op = "IFFT2" /\ call.x = <<Nil>>
  /\ ret.st = "panic" /\ ret.msg = "index out of range"

InFFT2 == call.op \in {"FFT2", "IFFT2"}

\* C17: FFT2 and IFFT2 on a slice of slices with a row of another length
\* than the first row end in the panic "ragged input array" with no result,
\* and no 1-D transform runs before every row has passed the check: during
\* the check, and in every call on a ragged input, none has been computed.
C17_RaggedFails ==
  InFFT2 =>
    /\ (mpc = "done" /\ Ragged(call.x)) =>
         /\ ret = [st |-> "panic", val |-> Nil, msg |-> "ragged input array"]
         /\ transforms = 0
    /\ mpc \in {"2.begin", "2.check"} => transforms = 0
    /\ transforms > 0 =>
         /\ ~Ragged(call.x)
         /\ frame.rows = Len(call.x)
         /\ \A j \in 1..frame.rows : Len(call.x[j]) = frame.cols

\* the third row is longer than the two before it: the check passed rows 0
\* and 1 and the call panicked at row 2 with no transform computed
C17_Witness ==
  /\ InFFT2 /\ mpc = "done" /\ Len(call.x) = 3
  /\ Len(call.x[1]) = 2 /\ Len(call.x[2]) = 2 /\ Len(call.x[3]) = 3
  /\ frame.i = 2
  /\ ret.st = "panic" /\ ret.msg = "ragged input array"
  /\ transforms = 0

\* a rectangular input passed the check and its first column was transformed
C17_WitnessRectangular ==
  InFFT2 /\ mpc = "2.col" /\ frame.rows = 3 /\ frame.cols = 2 /\ frame.i = 1
    /\ transforms > 0

(***************************************************************************)
(* checkHeader and ReadWav (src/wav/wav.go).  A byte is a number in        *)
(* 0..255, a header or a file a sequence of bytes.                         *)
(***************************************************************************)
ExpectedHeaderSize == 44

AudioFormatOffset == 20

NumChannelsOffset == 22

SampleRateOffset == 24

ByteRateOffset == 28

BlockAlignOffset == 32

BitsPerSampleOffset == 34

ChunkSizeOffset == 40

\* "RIFF", "WAVE", "fmt " and "data" as bytes
RIFF == <<82, 73, 70, 70>>

WAVE == <<87, 65, 86, 69>>

FMT == <<102, 109, 116, 32>>

DATA == <<100, 97, 116, 97>>

\* b[lo:hi]
Slice(b, lo, hi) == SubSeq(b, lo + 1, hi)

\* mutant: the "data" marker is tested before the "fmt " marker
checkHeaderDataFirst(h) ==
  IF Len(h) < ExpectedHeaderSize THEN "wav: Invalid header size"
  ELSE IF Slice(h, 0, 4) # RIFF THEN "wav: Header does not conatin 'RIFF'"
  ELSE IF Slice(h, 8, 12) # WAVE THEN "wav: Header does not contain 'WAVE'"
  ELSE IF Slice(h, 36, 40) # DATA THEN "wav: Header does not contain 'data'"
  ELSE IF Slice(h, 12, 16) # FMT THEN "wav: Header does not contain 'fmt'"
  ELSE NoErr

checkHeader(h) ==
  IF Len(h) < ExpectedHeaderSize THEN "wav: Invalid header size"
  ELSE IF Slice(h, 0, 4) # RIFF THEN "wav: Header does not conatin 'RIFF'"
  ELSE IF Slice(h, 8, 12) # WAVE THEN "wav: Header does not contain 'WAVE'"
  ELSE IF Slice(h, 12, 16) # FMT THEN "wav: Header does not contain 'fmt'"
  ELSE IF Slice(h, 36, 40) # DATA THEN "wav: Header does not contain 'data'"
  ELSE NoErr

\* four bytes never exceed uint32: the sum cannot wrap
bLEtoUint32(b, idx) ==
  b[idx + 4] * 16777216 + b[idx + 3] * 65536 + b[idx + 2] * 256 + b[idx + 1]

bLEtoUint16(b, idx) == (b[idx + 2] * 256 + b[idx + 1]) % 65536

\* int16 arithmetic wraps into -32768..32767
bLEtoInt16(b, idx) ==
  LET u == (b[idx + 2] * 256 + b[idx + 1]) % 65536
  IN  IF u >= 32768 THEN u - 65536 ELSE u

\* the fields setupWithHeaderData reads from a header that passed the check
HeaderFields(h) ==
  [AudioFormat |-> bLEtoUint16(h, AudioFormatOffset),
   NumChannels |-> bLEtoUint16(h, NumChannelsOffset),
   SampleRate |-> bLEtoUint32(h, SampleRateOffset),
   ByteRate |-> bLEtoUint32(h, ByteRateOffset),
   BlockAlign |-> bLEtoUint16(h, BlockAlignOffset),
   BitsPerSample |-> bLEtoUint16(h, BitsPerSampleOffset),
   ChunkSize |-> bLEtoUint32(h, ChunkSizeOffset)]

\* the place in data readSampleFromData reads for sample i, channel ch
SampleAt(f, i, ch) ==
  IF f.BitsPerSample = 8 THEN i * f.NumChannels + ch
  ELSE 2 * i * f.NumChannels + ch

\* the bytes a sample of this width needs from that place on
SampleWidth(f) == IF f.BitsPerSample = 8 THEN 1 ELSE 2

readSampleFromData(data, i, ch, f) ==
  IF f.BitsPerSample = 8 THEN data[SampleAt(f, i, ch) + 1]
  ELSE bLEtoInt16(data, SampleAt(f, i, ch))

\* ReadWav(r): [st, wav, err], st = "panic" with the message in err.  The
\* data chunk is taken as long as the header says.
ReadWav(rd) ==
  IF rd.nil THEN [st |-> "read", wav |-> NilWav, err |-> "wav: Invalid Reader"]
  ELSE IF checkHeader(rd.bytes) # NoErr
  THEN [st |-> "read", wav |-> NilWav, err |-> checkHeader(rd.bytes)]
  ELSE
    LET f == HeaderFields(rd.bytes)
        Decodes == f.BitsPerSample \in {8, 16}
    IN  IF f.BlockAlign = 0
        THEN [st |-> "panic", wav |-> NilWav, err |-> "integer divide by zero"]
        ELSE
          LET NumSamples == f.ChunkSize \div f.BlockAlign
              data == Slice(rd.bytes, ExpectedHeaderSize, f.ChunkSize + ExpectedHeaderSize)
              Samples == Force([ch \in 1..f.NumChannels |->
                           Force([i \in 1..NumSamples |->
                              IF Decodes THEN readSampleFromData(data, i - 1, ch - 1, f)
                              ELSE 0])])
          IN  IF Decodes /\ \E i \in 0..(NumSamples - 1), ch \in 0..(f.NumChannels - 1) :
                     SampleAt(f, i, ch) + SampleWidth(f) > Len(data)
              THEN [st |-> "panic", wav |-> NilWav, err |-> "index out of range"]
              ELSE [st |-> "read", err |-> NoErr,
                    wav |-> [nil |-> FALSE, AudioFormat |-> f.AudioFormat,
                             NumChannels |-> f.NumChannels, SampleRate |-> f.SampleRate,
                             ByteRate |-> f.ByteRate, BlockAlign |-> f.BlockAlign,
                             BitsPerSample |-> f.BitsPerSample,
                             ChunkSize |-> f.ChunkSize, NumSamples |-> NumSamples,
                             Data8 |-> IF f.BitsPerSample = 8 THEN Samples ELSE Nil,
                             Data16 |-> IF f.BitsPerSample = 16 THEN Samples ELSE Nil,
                             Data |-> Samples]]

(***************************************************************************)
(* Inputs: headers with each marker whole or damaged, cut short or not,    *)
(* and files of up to MaxSamples samples.                                  *)
(***************************************************************************)
MaxSamples == 2

LE16(v) == <<v % 256, (v \div 256) % 256>>

LE32(v) == <<v % 256, (v \div 256) % 256, (v \div 65536) % 256, (v \div 16777216) % 256>>

\* a marker whole, zeroed, or with one byte zeroed
Damaged(marker) ==
  {marker, <<0, 0, 0, 0>>} \cup {[marker EXCEPT ![k] = 0] : k \in 1..4}

\* the 44 bytes of a header with the given markers and fields
MakeHeader(mk, nc, bits, align, chunk) ==
  mk[1] \o LE32(36 + chunk) \o mk[2] \o mk[3] \o LE32(16) \o LE16(1) \o LE16(nc)
    \o LE32(44100) \o LE32(44100 * align) \o LE16(align) \o LE16(bits)
    \o mk[4] \o LE32(chunk)

Markers == Damaged(RIFF) \X Damaged(WAVE) \X Damaged(FMT) \X Damaged(DATA)

\* the header of test_files/small.wav, as wav_test.go expects its fields
SmallHeader == MakeHeader(<<RIFF, WAVE, FMT, DATA>>, 1, 16, 2, 83790)

\* the short header of TestShortHeaderValidation
ShortHeader == <<82, 73, 70, 70, 114, 140, 52, 0, 87, 65, 86, 69>>

Headers ==
  {MakeHeader(mk, 1, 8, 1, 0) : mk \in Markers}
    \cup {SubSeq(SmallHeader, 1, L) : L \in {0, 4, 16, 40, 43, 44}}
    \cup {SmallHeader \o <<0>>, ShortHeader, Make(0), [k \in 1..44 |-> 0]}

\* byte k of the data of a file
DataByte(k) == (k * 89 + 70) % 256

Readers ==
  {NilReader} \cup
  {[nil |-> FALSE,
    bytes |-> MakeHeader(mk, nc, bits, align, cnt * nc * (bits \div 8))
                \o [k \in 1..(cnt * nc * (bits \div 8)) |-> DataByte(k)]] :
     mk \in {<<RIFF, WAVE, FMT, DATA>>, <<WAVE, WAVE, FMT, DATA>>,
             <<RIFF, RIFF, FMT, DATA>>, <<RIFF, WAVE, DATA, DATA>>,
             <<RIFF, WAVE, FMT, FMT>>},
     nc \in 1..2, bits \in {8, 16, 24}, align \in 0..4, cnt \in 0..MaxSamples}

CallCheckHeader ==
  \E h \in Headers :
    /\ wst = "idle"
    /\ header' = h
    /\ err' = checkHeader(h)
    /\ wst' = "checked"
    /\ UNCHANGED <<reader, wav>>

CallReadWav ==
  \E rd \in Readers :
    /\ wst = "idle"
    /\ reader' = rd
    /\ LET res == ReadWav(rd)
       IN  wst' = res.st /\ wav' = res.wav /\ err' = res.err
    /\ UNCHANGED header

ForgetWav ==
  /\ wst # "idle"
  /\ wst' = "idle" /\ header' = Nil /\ reader' = NilReader
  /\ wav' = NilWav /\ err' = NoErr

wavRest == <<pkgVars, apiVars, poolVars, engVars, lockVars, gridVars, seg, rev, stageVars, ali, smp>>

InitWavSpec ==
  /\ InitPkg /\ InitApi /\ InitPool /\ InitEng /\ InitLock /\ InitRest
  /\ gomaxprocs = 1

NextWav ==
  \/ CallCheckHeader /\ UNCHANGED wavRest
  \/ CallReadWav /\ UNCHANGED wavRest
  \/ ForgetWav /\ UNCHANGED wavRest

SpecWav == InitWavSpec /\ [][NextWav]_vars

(***************************************************************************)
(* Properties of checkHeader and ReadWav (specification SpecWav).          *)
(***************************************************************************)
\* the marker is in the header at the offset, byte by byte
MarkerAt(h, marker, off) == \A k \in 1..4 : h[off + k] = marker[k]

\* the markers in the order they are looked for, with their offsets
MarkerOrder == <<[name |-> "RIFF", bytes |-> RIFF, off |-> 0],
                 [name |-> "WAVE", bytes |-> WAVE, off |-> 8],
                 [name |-> "fmt ", bytes |-> FMT, off |-> 12],
                 [name |-> "data", bytes |-> DATA, off |-> 36]>>

Missing(h) == {k \in 1..4 : ~MarkerAt(h, MarkerOrder[k].bytes, MarkerOrder[k].off)}

\* the first marker in that order the header lacks
FirstMissing(h) == MarkerOrder[CHOOSE k \in Missing(h) : \A j \in Missing(h) : k <= j].name

\* the marker an error message names
Named(msg) ==
  CASE msg = "wav: Header does not conatin 'RIFF'" -> "RIFF"
    [] msg = "wav: Header does not contain 'WAVE'" -> "WAVE"
    [] msg = "wav: Header does not contain 'fmt'" -> "fmt "
    [] msg = "wav: Header does not contain 'data'" -> "data"
    [] OTHER -> "none"

\* C18: checkHeader returns an error for every header shorter than 44 bytes
\* (nil included); for a header of at least 44 bytes the error names the
\* first marker missing in the order RIFF at 0, WAVE at 8, "fmt " at 12,
\* data at 36, and is nil exactly when all four are there; ReadWav(nil)
\* returns (nil, error).
C18_HeaderCheck ==
  /\ wst = "checked" =>
       /\ Len(header) < 44 => err # NoErr
       /\ (Len(header) >= 44 /\ Missing(header) # {}) =>
            err # NoErr /\ Named(err) = FirstMissing(header)
       /\ err = NoErr <=> (Len(header) >= 44 /\ Missing(header) = {})
  /\ (wst \in {"read", "panic"} /\ reader.nil) =>
       wst = "read" /\ wav.nil /\ err # NoErr

\* a header of 44 bytes with RIFF and WAVE in place and both "fmt " and
\* data damaged: the error names "fmt "
C18_Witness ==
  /\ wst = "checked" /\ Len(header) = 44
  /\ Missing(header) = {3, 4}
  /\ Named(err) = "fmt "

\* the header of the test file passes, the nil header does not
C18_WitnessValid == wst = "checked" /\ header = SmallHeader /\ err = NoErr

C18_WitnessNil == wst = "checked" /\ header = Nil /\ err = "wav: Invalid header size"

\* ReadWav(nil) returned (nil, error)
C18_WitnessNilReader ==
  wst = "read" /\ reader.nil /\ wav.nil /\ err = "wav: Invalid Reader"

\* ReadWav decoded two 16-bit samples of one channel
C18_WitnessRead ==
  /\ wst = "read" /\ ~wav.nil /\ wav.BitsPerSample = 16 /\ wav.NumChannels = 1
  /\ wav.NumSamples = 2 /\ Len(wav.Data[1]) = 2

(***************************************************************************)
(* Segment (package spectral).  The samples are integers.                  *)
(***************************************************************************)
\* the longest input and the longest segment tried
MaxSegLen == 10

MaxSegSize == 5

\* the number of segments, as the three branches give it
SegmentCount(len, size, stride) ==
  IF len = size THEN 1
  ELSE IF len > size THEN ((len - size) \div stride) + 1
  ELSE 0

\* mutant: every segment starts one sample after the one before
SegmentUnitStride(xs, size, noverlap) ==
  LET stride == size - noverlap
      segments == SegmentCount(Len(xs), size, stride)
  IN  Force([i \in 1..segments |-> Force([j \in 1..size |-> xs[(i - 1) + j]])])

\* r[i][j] = x[offset+j], offset growing by stride from 0
Segment(xs, size, noverlap) ==
  LET stride == size - noverlap
      segments == SegmentCount(Len(xs), size, stride)
  IN  Force([i \in 1..segments |->
         Force([j \in 1..size |-> xs[(i - 1) * stride + j]])])

\* the input of TestSegment is 1, 2, ..., 10; so are the shorter inputs
SegInputs == {[k \in 1..L |-> k] : L \in 0..MaxSegLen}

CallSegment ==
  \E xs \in SegInputs, size \in 1..MaxSegSize :
    \E noverlap \in 0..(size - 1) :
      /\ seg.st = "idle"
      /\ seg' = [st |-> "called", xs |-> xs, size |-> size, noverlap |-> noverlap,
                 r |-> Nil]

RunSegment ==
  /\ seg.st = "called"
  /\ seg' = [seg EXCEPT !.st = "returned",
                        !.r = Segment(seg.xs, seg.size, seg.noverlap)]

ForgetSegment ==
  /\ seg.st = "returned"
  /\ seg' = NoSeg

segRest == <<pkgVars, apiVars, poolVars, engVars, lockVars, gridVars, wavVars, rev, stageVars, ali, smp>>

InitSegment ==
  /\ InitPkg /\ InitApi /\ InitPool /\ InitEng /\ InitLock /\ InitRest
  /\ gomaxprocs = 1

NextSegment ==
  \/ CallSegment /\ UNCHANGED segRest
  \/ RunSegment /\ UNCHANGED segRest
  \/ ForgetSegment /\ UNCHANGED segRest

SpecSegment == InitSegment /\ [][NextSegment]_vars

(***************************************************************************)
(* Properties of Segment (specification SpecSegment).                      *)
(***************************************************************************)
\* Go's integer division: the quotient rounded toward zero
GoDiv(a, b) == IF a >= 0 THEN a \div b ELSE -((-a) \div b)

\* segment i (from 0) of the result is x[i*stride .. i*stride+size), inside x
SegmentsAreSlices ==
  LET stride == seg.size - seg.noverlap
  IN  \A i \in 1..Len(seg.r) :
        /\ (i - 1) * stride + seg.size <= Len(seg.xs)
        /\ seg.r[i] = SubSeq(seg.xs, (i - 1) * stride + 1, (i - 1) * stride + seg.size)

C19_WitnessShort ==
  seg.st = "returned" /\ Len(seg.xs) = 3 /\ seg.size = 4 /\ seg.r = << >>

(***************************************************************************)
(* reverseBits and reorderData on their own.                               *)
(***************************************************************************)
\* the widest index tried, in bits
MaxBits == 6

CallReverseBits ==
  \E s \in 1..MaxBits :
    \E v \in 0..(Pow2(s) - 1) :
      /\ rev.st = "idle"
      /\ rev' = [NoRev EXCEPT !.st = "called", !.op = "reverseBits", !.v = v, !.s = s]

RunReverseBits ==
  /\ rev.st = "called" /\ rev.op = "reverseBits"
  /\ rev' = [rev EXCEPT !.st = "returned", !.r = reverseBits(rev.v, rev.s)]

CallReorderData ==
  \E s \in 1..MaxBits :
    /\ rev.st = "idle"
    /\ rev' = [NoRev EXCEPT !.st = "called", !.op = "reorderData", !.s = s,
                            !.xs = Ramp(Pow2(s))]

RunReorderData ==
  /\ rev.st = "called" /\ rev.op = "reorderData"
  /\ rev' = [rev EXCEPT !.st = "returned", !.out = reorderData(rev.xs)]

ForgetRev ==
  /\ rev.st = "returned"
  /\ rev' = NoRev

revRest == <<pkgVars, apiVars, poolVars, engVars, lockVars, gridVars, wavVars, seg, stageVars, ali, smp>>

InitBits ==
  /\ InitPkg /\ InitApi /\ InitPool /\ InitEng /\ InitLock /\ InitRest
  /\ gomaxprocs = 1

NextBits ==
  \/ CallReverseBits /\ UNCHANGED revRest
  \/ RunReverseBits /\ UNCHANGED revRest
  \/ CallReorderData /\ UNCHANGED revRest
  \/ RunReorderData /\ UNCHANGED revRest
  \/ ForgetRev /\ UNCHANGED revRest

SpecBits == InitBits /\ [][NextBits]_vars

(***************************************************************************)
(* Properties of the bit reversal (specification SpecBits).                *)
(***************************************************************************)
\* bit k (from 0) of v
BitOf(v, k) == (v \div Pow2(k)) % 2

\* the number whose bit s-1-k is bit k of v, for k < s
RECURSIVE Mirrored(_, _, _)
Mirrored(v, s, k) ==
  IF k >= s THEN 0 ELSE BitOf(v, k) * Pow2(s - 1 - k) + Mirrored(v, s, k + 1)

\* C20: for s >= 1 and i < 2^s, reverseBits(i, s) is the number whose low s
\* bits are those of i in reverse order; reorderData on 2^s elements returns
\* a new sequence with output[reverseBits(i, s)] = input[i] for every i, and
\* i -> reverseBits(i, s) maps the indices onto themselves one to one.
C20_BitReversal ==
  rev.st = "returned" =>
    /\ rev.op = "reverseBits" =>
         /\ rev.r = Mirrored(rev.v, rev.s, 0)
         /\ rev.r < Pow2(rev.s)
    /\ rev.op = "reorderData" =>
         LET L == Len(rev.xs) IN
         /\ L = Pow2(rev.s) /\ Len(rev.out) = L
         /\ \A i \in 0..(L - 1) : rev.out[reverseBits(i, rev.s) + 1] = rev.xs[i + 1]
         /\ \A i, j \in 0..(L - 1) :
              reverseBits(i, rev.s) = reverseBits(j, rev.s) => i = j
         /\ {reverseBits(i, rev.s) : i \in 0..(L - 1)} = 0..(L - 1)

\* reverseBitsTests: reverseBits(3, 4) = 12
C20_Witness ==
  rev.st = "returned" /\ rev.op = "reverseBits" /\ rev.v = 3 /\ rev.s = 4 /\ rev.r = 12

\* reverseBitsTests: reverseBits(1, 4) = 8
C20_WitnessOne ==
  rev.st = "returned" /\ rev.op = "reverseBits" /\ rev.v = 1 /\ rev.s = 4 /\ rev.r = 8

\* 16 elements reordered: element 1 went to place 8 and element 3 to place 12
C20_WitnessReorder ==
  /\ rev.st = "returned" /\ rev.op = "reorderData" /\ rev.s = 4
  /\ rev.out[9] = rev.xs[2] /\ rev.out[13] = rev.xs[4]
  /\ rev.out # rev.xs

\* ---------------------------------------------------------------------
\* The jobs of a stage (radix2FFT, the loop over start and end)
\* ---------------------------------------------------------------------

\* the jobs that were sent and whose result has not been sent yet: those in
\* the channel and those a worker holds
Dispatched == {jobs[k] : k \in 1..Len(jobs)} \cup {work[w] : w \in BusyWorkers}

ChunkSize(job) == job.end - job.start

\* C21 as stated: every chunk sent to a worker in any stage has at least
\* idx_diff = max(2, lx / num_workers) indices, the last chunk of a stage
\* included.
C21_EveryChunkAtLeastIdxDiff ==
  \A job \in Dispatched : ChunkSize(job) >= idx_diff

\* C21: every chunk sent to a worker in any stage, other than the last chunk
\* of the stage (the one that ends at lx), has at least
\* idx_diff = max(2, lx / num_workers) indices; the last chunk of a stage
\* may be smaller and has at least the indices of one block.
C21_ChunkGranularity ==
  \A job \in Dispatched :
    /\ ChunkSize(job) >= idx_diff \/ job.end = lx
    /\ ChunkSize(job) >= job.stage
    /\ idx_diff = IdxDiff(lx, num_workers)

\* a stage whose last chunk is smaller than idx_diff: 16 points, 3 workers
C21_Witness ==
  \E job \in Dispatched :
    /\ job.end = lx /\ ChunkSize(job) < idx_diff
    /\ lx = 16 /\ num_workers = 3 /\ idx_diff = 5

\* a chunk of several blocks that is not the last of its stage
C21_WitnessInner ==
  \E job \in Dispatched :
    /\ job.end < lx /\ ChunkSize(job) >= idx_diff /\ ChunkSize(job) > job.stage

\* ---------------------------------------------------------------------
\* The partition of a stage among the workers
\* ---------------------------------------------------------------------

InStage == dpc \in {"chunk", "collect"}

Indices(job) == job.start .. (job.end - 1)

\* the chunks sent so far in the stage follow one another from 0 without
\* gap or overlap, begin and end at multiples of the stage size, and once
\* the last is sent they cover 0..lx-1
ChunksPartition ==
  InStage =>
    /\ \A k \in 1..Len(chunks) :
         /\ chunks[k].start < chunks[k].end /\ chunks[k].end <= lx
         /\ chunks[k].start % stage = 0 /\ chunks[k].end % stage = 0
         /\ chunks[k].start = IF k = 1 THEN 0 ELSE chunks[k - 1].end
    /\ \A k, m \in 1..Len(chunks) :
         k # m => Indices(chunks[k]) \cap Indices(chunks[m]) = {}
    /\ dpc = "chunk" => start = (IF chunks = << >> THEN 0 ELSE chunks[Len(chunks)].end)
    /\ dpc = "collect" =>
         /\ chunks # << >> /\ chunks[Len(chunks)].end = lx
         /\ UNION {Indices(chunks[k]) : k \in 1..Len(chunks)} = 0..(lx - 1)
         /\ Len(chunks) = workers_spawned

\* a job is in one place: no two workers hold jobs that share an index, and
\* no job in the channel shares an index with a job in the channel or in a
\* worker's hands
OneHolder ==
  /\ \A v, w \in BusyWorkers : v # w => Indices(work[v]) \cap Indices(work[w]) = {}
  /\ \A k \in 1..Len(jobs) : \A w \in BusyWorkers :
       Indices(jobs[k]) \cap Indices(work[w]) = {}
  /\ \A k, m \in 1..Len(jobs) : k # m => Indices(jobs[k]) \cap Indices(jobs[m]) = {}

\* the block a worker is about to process lies inside its chunk: what it
\* reads of r and what it assigns in t
WorkerInsideChunk ==
  \A w \in Workers :
    wpc[w] = "work" =>
      /\ BlockWrites(nb[w], stage, s_2) \subseteq Indices(work[w])
      /\ BlockReads(nb[w], stage, s_2) \subseteq Indices(work[w])
      /\ \E k \in 1..Len(chunks) :
           chunks[k].start = work[w].start /\ chunks[k].end = work[w].end

\* no index of t is assigned twice in a stage, each assignment comes from
\* the worker holding the chunk the index lies in, and when the caller has
\* all the results every index has been assigned
WrittenOnce ==
  InStage =>
    /\ \A k \in 1..Len(writes) :
         /\ Len(writes[k]) <= 1
         /\ \A m \in 1..Len(writes[k]) :
              /\ k - 1 \in Indices(writes[k][m])
              /\ \E c \in 1..Len(chunks) : chunks[c] = writes[k][m]
    /\ (dpc = "collect" /\ n = workers_spawned) =>
         \A k \in 1..lx : Len(writes[k]) = 1

\* r is not assigned during a stage: it changes only by the exchange with t,
\* made by the caller when every index of t has been assigned once and no
\* job is in the channel or in a worker's hands
SwapBetweenStages ==
  (InStage /\ r' # r) =>
    /\ dpc = "collect" /\ dpc' = "stage"
    /\ r' = t /\ t' = r
    /\ jobs = << >> /\ BusyWorkers = {}
    /\ \A k \in 1..lx : Len(writes[k]) = 1

\* C22: the chunks of a stage are contiguous, pairwise disjoint, aligned to
\* multiples of the stage size and cover 0..lx-1; a worker reads r and
\* assigns t only at indices inside its chunk; every index of t is assigned
\* exactly once per stage, by the one worker that holds its chunk; r, which
\* the workers read, is never assigned while a stage runs, and r and t are
\* exchanged only between stages.
C22_StagePartition ==
  /\ [](ChunksPartition /\ OneHolder /\ WorkerInsideChunk /\ WrittenOnce)
  /\ [][SwapBetweenStages]_vars

\* a stage of several chunks is complete: 16 points, 3 workers, stage 2 cut
\* into three chunks, every index assigned once
C22_Witness ==
  /\ dpc = "collect" /\ n = workers_spawned
  /\ lx = 16 /\ num_workers = 3 /\ stage = 2 /\ Len(chunks) = 3
  /\ \A k \in 1..lx : Len(writes[k]) = 1

\* two workers are inside different chunks of the same stage at once
C22_WitnessParallel ==
  \E v, w \in Workers :
    /\ v # w /\ wpc[v] = "work" /\ wpc[w] = "work"
    /\ work[v].start # work[w].start /\ stage = 4

\* ---------------------------------------------------------------------
\* The butterfly multiplier read from the table of the whole length
\* ---------------------------------------------------------------------

\* a worker is inside a block of the current stage
AtBlock(w) == wpc[w] = "work" /\ BlockInRange(nb[w])

\* C23: at a stage of size S, 4 <= S <= lx, for every offset j below S/2 the
\* multiplier the worker reads, factors[(lx/S)*j] of the lx-point table, is
\* entry j of the S-point table, e^(-2*pi*i*j/S); the index (lx/S)*j is
\* below lx/2 and so inside the table; at stage size 2 no entry of the table
\* is read.
C23_StageTwiddle ==
  \A w \in Workers :
    AtBlock(w) =>
      IF stage # 2
        THEN /\ 4 <= stage /\ stage <= lx /\ blocks = lx \div stage
             /\ FactorReads(stage, s_2, blocks) = {blocks * j : j \in 0..(s_2 - 1)}
             /\ \A j \in 0..(s_2 - 1) :
                  /\ blocks * j < lx \div 2
                  /\ blocks * j < Len(factors)
                  /\ factors[blocks * j + 1] = radix2Factors[stage][j + 1]
                  /\ factors[blocks * j + 1] = Twiddle(stage, j)
        ELSE /\ FactorReads(stage, s_2, blocks) = {}
             /\ ButterflyBlock(r, t, nb[w], stage, s_2, blocks, Nil)
                  = ButterflyBlock(r, t, nb[w], stage, s_2, blocks, factors)

\* stage 4 of a 16-point transform: the multiplier for j = 1 is entry 4 of
\* the 16-point table, and it is -i, entry 1 of the 4-point table
C23_Witness ==
  \E w \in Workers :
    /\ AtBlock(w) /\ lx = 16 /\ stage = 4 /\ blocks = 4
    /\ factors[5] = radix2Factors[4][2] /\ factors[5] = Gauss(0, -1)
    /\ factors[5] # factors[2]

\* the last stage reads the table at every index below lx/2
C23_WitnessLastStage ==
  \E w \in Workers :
    AtBlock(w) /\ lx = 8 /\ stage = 8 /\ FactorReads(stage, s_2, blocks) = 0..3

\* a 2-point transform runs its one stage without a table
C23_WitnessNoTable ==
  \E w \in Workers : AtBlock(w) /\ lx = 2 /\ stage = 2 /\ factors = Nil

\* ---------------------------------------------------------------------
\* The operands bluesteinFFT builds
\* ---------------------------------------------------------------------

\* the lengths bluesteinFFT is called with
BluesteinLens == {L \in 3..TabMax : ~IsPowerOf2(L)}

\* M for an input of length L
PadLen(L) == NextPowerOf2(L * 2 - 1)

\* no index occurs twice in the sequence
NoRepeat(sq) == \A i, j \in 1..Len(sq) : i # j => sq[i] # sq[j]

\* M is the least power of two >= 2L-1, the wrapped indices M-i lie outside
\* 0..L-1 and the loop assigns no index of b twice
PadShape(L) ==
  LET M == PadLen(L)
  IN  /\ IsPowerOf2(M) /\ M >= 2 * L - 1 /\ M \div 2 < 2 * L - 1
      /\ M > L
      /\ {M - i : i \in 1..(L - 1)} \cap 0..(L - 1) = {}
      /\ NoRepeat(bWrites(0, L, M))
      /\ Len(bWrites(0, L, M)) = 2 * L - 1
      /\ \A k \in 1..Len(bWrites(0, L, M)) :
           bWrites(0, L, M)[k] >= 0 /\ bWrites(0, L, M)[k] < M

\* the operands and the result of bluesteinFFT on xs, with the chirp tables
\* of the cache
BluesteinSetup(xs, res) ==
  LET L == Len(xs)
      M == PadLen(L)
      chirp == bluesteinFactors[L]
      invChirp == bluesteinInvFactors[L]
      a == BluesteinA(xs, invChirp, ZeroPad(xs, M))
      b == BluesteinB(chirp, L, M)
      c == Convolve(a, b, PkgState)
      assigned == {bWrites(0, L, M)[k] : k \in 1..(2 * L - 1)}
  IN  /\ chirp = BuildChirp(L) /\ invChirp = BuildInvChirp(L)
      /\ Len(a) = M
      /\ \A k \in 0..(M - 1) :
           a[k + 1] = IF k < L THEN CMul(xs[k + 1], invChirp[k + 1]) ELSE ZeroC
      /\ Len(b) = M
      /\ \A i \in 0..(L - 1) : b[i + 1] = chirp[i + 1]
      /\ \A i \in 1..(L - 1) : b[M - i + 1] = chirp[i + 1]
      /\ \A k \in 0..(M - 1) : k \notin assigned => b[k + 1] = ZeroC
      /\ \A k \in 0..(M - 1) : (k >= L /\ k <= M - L) => b[k + 1] = ZeroC
      /\ c.ok /\ Len(c.val) = M
      /\ Len(res) = L
      /\ \A k \in 1..L : res[k] = CMul(c.val[k], invChirp[k])

\* C24: for every length L >= 3 that is not a power of two, M is the least
\* power of two >= 2L-1; a has length M, a[n] = x[n]*invChirp[n] below L and
\* 0 from L on; b has length M, b[i] = chirp[i] below L, b[M-i] = chirp[i]
\* for 0 < i < L and 0 elsewhere; the wrapped indices M-i do not meet
\* 0..L-1, so no entry of b is assigned twice; the result is the first L
\* entries of the convolution of a and b, each multiplied by invChirp, and
\* has length L.
C24_BluesteinSetup ==
  /\ \A L \in BluesteinLens : PadShape(L)
  /\ (Returned("FFT") /\ Len(call.x) \in BluesteinLens) =>
       /\ ret.st = "ok"
       /\ BluesteinSetup(call.x, ret.val)

\* FFT of a 3-point input returned: M = 8, b has the chirp at 0, 1, 2 and
\* wrapped at 7, 6
C24_Witness ==
  /\ Returned("FFT") /\ Len(call.x) = 3 /\ call.x # Make(3)
  /\ PadLen(3) = 8
  /\ bWrites(0, 3, 8) = <<0, 1, 7, 2, 6>>
  /\ BluesteinB(bluesteinFactors[3], 3, 8)[8] = bluesteinFactors[3][2]
  /\ ret.val = DFT(call.x)

\* FFT of a 6-point input returned: M = 16
C24_WitnessSix ==
  /\ Returned("FFT") /\ Len(call.x) = 6 /\ PadLen(6) = 16 /\ ret.val = DFT(call.x)

\* ---------------------------------------------------------------------
\* Which engine a transform is handed to
\* ---------------------------------------------------------------------

\* the engines the returned call entered, in order, each with the length of
\* its argument and its depth on the stack
EngineLog ==
  IF call.op = "FFT" THEN FFT(call.x, PkgState).st.log
  ELSE IF call.op = "IFFT" THEN IFFT(call.x, PkgState).st.log
  ELSE Convolve(call.x, call.y, PkgState).st.log

Entry(eng, len, depth) == [eng |-> eng, len |-> len, depth |-> depth]

\* the entries of bluesteinFFT(L) called at depth d: itself, then radix2FFT
\* for FFT(a), for FFT(b) and for the FFT inside the IFFT of Convolve
BluesteinLog(L, d) ==
  <<Entry("bluestein", L, d),
    Entry("radix2", PadLen(L), d + 3), Entry("radix2", PadLen(L), d + 3),
    Entry("radix2", PadLen(L), d + 4)>>

\* C25: FFT hands a sequence of length >= 2 to radix2FFT if and only if the
\* length is a power of two, and otherwise to bluesteinFFT; inside
\* bluesteinFFT the two forward transforms and the inverse transform of
\* the convolution have the power-of-two length M and are handed to
\* radix2FFT, so bluesteinFFT is never entered from inside bluesteinFFT and
\* the depth of the calls is bounded.
C25_Dispatch ==
  (ret.st = "ok" /\ call.op \in {"FFT", "IFFT", "Convolve"}) =>
    LET log == EngineLog
        L == Len(call.x)
    IN  /\ (call.op = "FFT" /\ L >= 2) =>
             IF IsPowerOf2(L)
               THEN log = <<Entry("radix2", L, 2)>>
               ELSE log = BluesteinLog(L, 2) /\ IsPowerOf2(PadLen(L))
        /\ (call.op = "FFT" /\ L < 2) => log = << >>
        /\ \A k \in 1..Len(log) :
             /\ log[k].depth <= 8
             /\ log[k].eng = "bluestein" =>
                  /\ ~IsPowerOf2(log[k].len)
                  /\ log[k].depth <= 4
                  /\ k + 3 <= Len(log)
                  /\ SubSeq(log, k, k + 3) = BluesteinLog(log[k].len, log[k].depth)
             /\ log[k].eng = "radix2" => IsPowerOf2(log[k].len) /\ log[k].len >= 2

\* FFT of a 6-point input returned: bluesteinFFT once, radix2FFT three times
\* on 16 points
C25_Witness ==
  /\ Returned("FFT") /\ Len(call.x) = 6
  /\ EngineLog = <<Entry("bluestein", 6, 2), Entry("radix2", 16, 5),
                   Entry("radix2", 16, 5), Entry("radix2", 16, 6)>>

\* FFT of a 4-point input returned: radix2FFT once
C25_WitnessRadix2 ==
  /\ Returned("FFT") /\ Len(call.x) = 4 /\ EngineLog = <<Entry("radix2", 4, 2)>>

\* Convolve of two 3-point inputs returned: bluesteinFFT three times, each
\* from the outermost level, at depth 8 the deepest radix2FFT
C25_WitnessDeepest ==
  /\ Returned("Convolve") /\ ret.st = "ok" /\ Len(call.x) = 3
  /\ Len(EngineLog) = 12
  /\ EngineLog[9] = Entry("bluestein", 3, 4)
  /\ EngineLog[12] = Entry("radix2", 8, 8)

\* ---------------------------------------------------------------------
\* The workers after radix2FFT has returned
\* ---------------------------------------------------------------------

\* radix2FFT has returned and no other call has begun
Finished == dpc = "idle" /\ out # Nil

\* the workers the call started
Started == {w \in Workers : w <= num_workers}

AllExited == \A w \in Started : wpc[w] = "exited"

\* the channels and the workers when the call has returned
ShutdownInv ==
  Finished =>
    /\ closed
    /\ jobs = << >> /\ results = 0
    /\ BusyWorkers = {}
    /\ \A w \in Started : wpc[w] \in {"recv", "exited"}
    /\ \A w \in Workers \ Started : wpc[w] = "off"
    /\ \A k \in 1..lx : Len(writes[k]) = 1

\* after the return no step changes the sequence handed to the caller, and
\* the only steps of the workers are their exits
ShutdownStep ==
  (Finished /\ dpc' = "idle") =>
    /\ out' = out
    /\ \A w \in Workers : wpc'[w] # wpc[w] => (wpc[w] = "recv" /\ wpc'[w] = "exited")
    /\ writes' = writes

\* C26: when radix2FFT returns, the jobs channel is closed, no job sent is
\* unprocessed and no result unconsumed; with a fair scheduler every worker
\* the call started exits; and no worker of the finished call touches the
\* sequence returned to the caller.
C26_WorkerShutdown ==
  /\ []ShutdownInv
  /\ [][ShutdownStep]_vars
  /\ Finished ~> AllExited

\* a 16-point transform with 3 workers has returned and its workers are gone
C26_Witness ==
  /\ Finished /\ lx = 16 /\ num_workers = 3 /\ AllExited /\ closed

\* the call has returned while a worker has not yet seen the closed channel
C26_WitnessWaiting ==
  /\ Finished /\ num_workers = 2
  /\ wpc[1] = "exited" /\ wpc[2] = "recv"

\* ---------------------------------------------------------------------
\* The shape of the radix-2 cache
\* ---------------------------------------------------------------------

\* the lengths that have a table
Radix2Keys == {L \in CacheKeys : radix2Factors[L] # Nil}

\* the keys are powers of two from 4 on, 4 among them, and with a key
\* i >= 8 the key i/2
KeysClosed ==
  /\ 4 \in Radix2Keys
  /\ \A i \in Radix2Keys :
       /\ IsPowerOf2(i) /\ i >= 4
       /\ Len(radix2Factors[i]) = i
       /\ i >= 8 => (i \div 2) \in Radix2Keys

\* the even entries of a table are the entries of the table of half the length
EvenFromHalf ==
  \A i \in Radix2Keys :
    i >= 8 =>
      \A j \in 0..((i \div 2) - 1) :
        radix2Factors[i][2 * j + 1] = radix2Factors[i \div 2][j + 1]

\* a call of getRadix2Factors about to return
ReturnsFrom(c) == gpc[c] \in {"r2.rret", "r2.wret"}

\* C27: under any interleaving of calls of getRadix2Factors with any
\* arguments, the cache holds the seeded length 4, every key is a power of
\* two >= 4, and with every key i >= 8 the key i/2, with
\* table[i][2j] = table[i/2][j] for all j (whenever no goroutine is inside
\* the exclusive section); a call for length L returns with every power of
\* two in 4..L cached.
C27_CacheShape ==
  /\ KeysClosed
  /\ radix2Lock.writer = 0 => EvenFromHalf
  /\ \A c \in Callers :
       ReturnsFrom(c) =>
         /\ \A L \in 4..loc[c].input_len : IsPowerOf2(L) => L \in Radix2Keys
         /\ EvenFromHalf

\* a call for 12, not a power of two, returns: the table for 8 was built,
\* none for 12 or 16
C27_Witness ==
  \E c \in Callers :
    /\ gpc[c] = "r2.wret" /\ loc[c].input_len = 12
    /\ Radix2Keys = {4, 8}

\* a call for 16 is about to return, having built the tables for 8 and 16,
\* while a call for 8 that found no table waits for the exclusive lock
C27_WitnessInterleaved ==
  /\ gpc[1] = "r2.wret" /\ loc[1].input_len = 16
  /\ gpc[2] = "r2.lock" /\ loc[2].input_len = 8
  /\ Radix2Keys = {4, 8, 16}

\* ---------------------------------------------------------------------
\* The discipline of the two cache locks
\* ---------------------------------------------------------------------

HoldsShared(c, lock) == c \in lock.readers

HoldsExclusive(c, lock) == lock.writer = c

Holds(c, lock) == HoldsShared(c, lock) \/ HoldsExclusive(c, lock)

\* goroutine c waits for a lock it cannot take now
Blocked(c) ==
  \/ At(c, "r2.rlock") /\ ~CanRLock(radix2Lock)
  \/ At(c, "r2.lock") /\ ~CanLock(radix2Lock)
  \/ At(c, "bl.rlock") /\ ~CanRLock(bluesteinLock)
  \/ At(c, "bl.lock") /\ ~CanLock(bluesteinLock)

\* the lock goroutine c stands in front of
Wanted(c) == IF gpc[c] \in {"r2.rlock", "r2.lock"} THEN radix2Lock ELSE bluesteinLock

LockDiscipline ==
  \A c \in Callers :
    \* the shared lock is given back before the exclusive one is asked for
    /\ gpc[c] \in {"r2.lock", "r2.rlock"} => ~Holds(c, radix2Lock)
    /\ gpc[c] \in {"bl.lock", "bl.rlock"} => ~Holds(c, bluesteinLock)
    /\ ~(HoldsShared(c, radix2Lock) /\ HoldsExclusive(c, radix2Lock))
    /\ ~(HoldsShared(c, bluesteinLock) /\ HoldsExclusive(c, bluesteinLock))
    \* outside the two functions, where the transform goes on to its
    \* channels, no lock is held
    /\ At(c, "idle") => (~Holds(c, radix2Lock) /\ ~Holds(c, bluesteinLock))
    \* never both locks
    /\ ~(Holds(c, radix2Lock) /\ Holds(c, bluesteinLock))
    \* the positions inside the locks
    /\ HoldsShared(c, radix2Lock) <=> gpc[c] \in {"r2.check", "r2.rret", "r2.runlock"}
    /\ HoldsExclusive(c, radix2Lock)
         <=> gpc[c] \in {"r2.recheck", "r2.loop", "r2.even", "r2.odd", "r2.wret"}
    /\ HoldsShared(c, bluesteinLock) <=> gpc[c] \in {"bl.check", "bl.rret", "bl.runlock"}
    /\ HoldsExclusive(c, bluesteinLock) <=> gpc[c] \in {"bl.recheck", "bl.fill", "bl.wret"}

\* a goroutine that waits for a lock waits for a goroutine that holds it and
\* does not wait itself; so not all goroutines wait
NoLockCycle ==
  /\ \A c \in Callers :
       Blocked(c) => \E d \in Callers \ {c} : Holds(d, Wanted(c)) /\ ~Blocked(d)
  /\ \E c \in Callers : ~Blocked(c)

\* C28: on every path through getRadix2Factors and getBluesteinFactors the
\* shared lock is released before the exclusive lock is requested and every
\* lock taken is released before the function returns; no goroutine holds
\* radix2Lock and bluesteinLock at once, or holds either once the function
\* has returned (where the transform goes on to its worker channels); the
\* goroutines never all wait for the cache locks.
C28_LockDiscipline == LockDiscipline /\ NoLockCycle

\* one goroutine fills a table under the exclusive lock while the other waits
\* for the shared lock
C28_Witness ==
  /\ HoldsExclusive(1, radix2Lock) /\ gpc[1] = "r2.odd"
  /\ gpc[2] = "r2.rlock" /\ Blocked(2)

\* a goroutine has given back the shared lock and waits for the exclusive
\* one, which the other goroutine keeps from it by reading
C28_WitnessUpgrade ==
  /\ gpc[1] = "bl.lock" /\ Blocked(1) /\ ~Holds(1, bluesteinLock)
  /\ HoldsShared(2, bluesteinLock)

\* the two goroutines hold different locks
C28_WitnessTwoLocks ==
  /\ HoldsExclusive(1, radix2Lock) /\ HoldsExclusive(2, bluesteinLock)

(***************************************************************************)
(* The transforms as reads and writes of arrays.  An array is              *)
(* [len, dirty, refs]: dirty says that an element was assigned since the   *)
(* call began, refs are the rows of a [][]complex128.  A slice is          *)
(* [addr, len] and begins at element 0 of its array.  H is the sequence of *)
(* the arrays there are; make appends one.  A call returns [ok, mem, s].   *)
(***************************************************************************)
\* the longest argument tried
MaxAliasLen == 6

SliceOf(addr, len) == [addr |-> addr, len |-> len]

Returning(H, sl) == [ok |-> TRUE, mem |-> H, s |-> sl]

Panicking(H) == [ok |-> FALSE, mem |-> H, s |-> Nil]

\* make([]complex128, len)
MakeRef(H, len) ==
  Returning(Append(H, [len |-> len, dirty |-> FALSE, refs |-> << >>]),
            SliceOf(Len(H) + 1, len))

\* a loop of cnt assignments to elements of the array of sl
Assign(H, sl, cnt) == IF cnt > 0 THEN [H EXCEPT ![sl.addr].dirty = TRUE] ELSE H

\* r := make(length); copy(r, x); return r  -- or x itself when len(x) == length
ZeroPadRef(H, sl, length) ==
  IF sl.len = length THEN Returning(H, sl)
  ELSE LET m == MakeRef(H, length)
       IN  Returning(Assign(m.mem, m.s, length), m.s)

\* mutant: reorderData works in place
reorderDataInPlace(H, sl) == Returning(Assign(H, sl, sl.len), sl)

\* r := make([]complex128, lx); r[reverseBits(n, s)] = x[n] for every n
reorderDataRef(H, sl) ==
  LET m == MakeRef(H, sl.len)
  IN  Returning(Assign(m.mem, m.s, sl.len), m.s)

\* the stages: the workers assign t, then r, t = t, r
RECURSIVE stagesRef(_, _, _, _, _)
stagesRef(H, rs, ts, stg, len) ==
  IF stg <= len THEN stagesRef(Assign(H, ts, len), ts, rs, 2 * stg, len)
  ELSE Returning(H, rs)

radix2FFTRef(H, sl) ==
  LET tm == MakeRef(H, sl.len)
      rm == reorderDataRef(tm.mem, sl)
  IN  stagesRef(rm.mem, rm.s, tm.s, 2, sl.len)

RECURSIVE FFTRef(_, _)

IFFTRef(H, sl) ==
  LET afterFFT(f) == IF ~f.ok THEN f
                     ELSE Returning(Assign(f.mem, f.s, f.s.len), f.s)
      afterMake(m) == IF sl.len = 0 THEN Panicking(m.mem)
                      ELSE afterFFT(FFTRef(Assign(m.mem, m.s, sl.len), m.s))
  IN  afterMake(MakeRef(H, sl.len))

ConvolveRef(H, xsl, ysl) ==
  LET afterMake(m) == IFFTRef(Assign(m.mem, m.s, m.s.len), m.s)
  IN  IF xsl.len # ysl.len THEN Panicking(H)
      ELSE afterMake(MakeRef(FFTRef(FFTRef(H, xsl).mem, ysl).mem, xsl.len))

bluesteinFFTRef(H, sl) ==
  LET afterConvolve(c) ==
        IF ~c.ok THEN c
        ELSE Returning(Assign(c.mem, c.s, sl.len), SliceOf(c.s.addr, sl.len))
      withB(a, b) == afterConvolve(ConvolveRef(Assign(b.mem, b.s, sl.len), a.s, b.s))
      afterPad(a) == withB(a, MakeRef(Assign(a.mem, a.s, sl.len), a.s.len))
  IN  afterPad(ZeroPadRef(H, sl, NextPowerOf2(sl.len * 2 - 1)))

FFTRef(H, sl) ==
  IF sl.len <= 1
    THEN LET m == MakeRef(H, sl.len)
         IN  Returning(Assign(m.mem, m.s, sl.len), m.s)
  ELSE IF IsPowerOf2(sl.len) THEN radix2FFTRef(H, sl)
  ELSE bluesteinFFTRef(H, sl)

\* r[i] = make([]complex128, cols) for each row of the array at o
RECURSIVE makeRowsRef(_, _, _, _)
makeRowsRef(H, o, i, cols) ==
  IF i > H[o].len THEN H
  ELSE LET m == MakeRef(H, cols)
       IN  makeRowsRef([m.mem EXCEPT ![o].refs[i] = m.s, ![o].dirty = TRUE], o, i + 1, cols)

\* the loop over the columns: t := make; t[j] = x[j][i]; r[n][i] = v
RECURSIVE columnsRef(_, _, _, _, _)
columnsRef(H, o, i, cols, rows) ==
  LET touched == {H[o].refs[k].addr : k \in 1..rows}
      afterColumn(f) ==
        IF ~f.ok THEN f
        ELSE columnsRef([a \in 1..Len(f.mem) |->
                           IF a \in touched /\ f.s.len > 0
                             THEN [f.mem[a] EXCEPT !.dirty = TRUE] ELSE f.mem[a]],
                        o, i + 1, cols, rows)
      afterMake(tm) == afterColumn(FFTRef(Assign(tm.mem, tm.s, rows), tm.s))
  IN  IF i > cols THEN Returning(H, SliceOf(o, rows))
      ELSE afterMake(MakeRef(H, rows))

\* the loop over the rows: r[n] = fftFunc(v)
RECURSIVE rowsRef(_, _, _, _)
rowsRef(H, o, k, rows) ==
  LET afterRow(f) ==
        IF ~f.ok THEN f
        ELSE rowsRef([f.mem EXCEPT ![o].refs[k] = f.s, ![o].dirty = TRUE], o, k + 1, rows)
  IN  IF k > rows THEN Returning(H, SliceOf(o, rows))
      ELSE afterRow(FFTRef(H, H[o].refs[k]))

\* computeFFT2(x, FFT)
computeFFT2Ref(H, g) ==
  LET rows == g.len
      xrows == H[g.addr].refs
      o == Len(H) + 1
      afterColumns(c) == IF ~c.ok THEN c ELSE rowsRef(c.mem, o, 1, rows)
  IN  IF rows = 0 THEN Panicking(H)
      ELSE LET cols == xrows[1].len
               H1 == Append(H, [len |-> rows, dirty |-> FALSE,
                                refs |-> [k \in 1..rows |-> Nil]])
           IN  IF \E k \in 1..rows : xrows[k].len # cols THEN Panicking(H1)
               ELSE afterColumns(columnsRef(makeRowsRef(H1, o, 1, cols), o, 1, cols, rows))

\* the arrays of a caller: one array of each length given
ArraysOf(lens) == [k \in 1..Len(lens) |-> [len |-> lens[k], dirty |-> FALSE, refs |-> << >>]]

\* a matrix of rows x cols: the rows, then the array of the rows
MatrixOf(rows, cols) ==
  Append(ArraysOf([k \in 1..rows |-> cols]),
         [len |-> rows, dirty |-> FALSE, refs |-> [k \in 1..rows |-> SliceOf(k, cols)]])

AliasLens == 0..MaxAliasLen

CallFFTRef ==
  \E L \in AliasLens, op \in {"FFT", "IFFT"} :
    /\ ali.st = "idle"
    /\ ali' = [NoAli EXCEPT !.st = "called", !.op = op, !.mem = ArraysOf(<<L>>),
                            !.base = 1, !.args = <<SliceOf(1, L)>>]

\* Convolve(x, y) with two arrays, or with the same array twice
CallConvolveRef ==
  \E L \in AliasLens, K \in AliasLens, same \in BOOLEAN :
    /\ ali.st = "idle"
    /\ ali' = IF same
                THEN [NoAli EXCEPT !.st = "called", !.op = "Convolve",
                                   !.mem = ArraysOf(<<L>>), !.base = 1,
                                   !.args = <<SliceOf(1, L), SliceOf(1, L)>>]
                ELSE [NoAli EXCEPT !.st = "called", !.op = "Convolve",
                                   !.mem = ArraysOf(<<L, K>>), !.base = 2,
                                   !.args = <<SliceOf(1, L), SliceOf(2, K)>>]

CallFFT2Ref ==
  \E rows \in 0..3, cols \in AliasLens :
    /\ ali.st = "idle"
    /\ ali' = [NoAli EXCEPT !.st = "called", !.op = "FFT2",
                            !.mem = MatrixOf(rows, cols), !.base = rows + 1,
                            !.args = <<SliceOf(rows + 1, rows)>>]

RunRef ==
  LET returnRef(res) ==
        ali' = [ali EXCEPT !.st = "returned", !.before = ali.mem, !.mem = res.mem,
                           !.ok = res.ok, !.ret = res.s]
  IN  /\ ali.st = "called"
      /\ returnRef(IF ali.op = "FFT" THEN FFTRef(ali.mem, ali.args[1])
                   ELSE IF ali.op = "IFFT" THEN IFFTRef(ali.mem, ali.args[1])
                   ELSE IF ali.op = "Convolve"
                     THEN ConvolveRef(ali.mem, ali.args[1], ali.args[2])
                   ELSE computeFFT2Ref(ali.mem, ali.args[1]))

ForgetRef ==
  /\ ali.st = "returned"
  /\ ali' = NoAli

aliRest == <<pkgVars, apiVars, poolVars, engVars, lockVars, gridVars, wavVars, seg, rev, stageVars, smp>>

InitAlias ==
  /\ InitPkg /\ InitApi /\ InitPool /\ InitEng /\ InitLock /\ InitRest
  /\ gomaxprocs = 1

NextAlias ==
  \/ CallFFTRef /\ UNCHANGED aliRest
  \/ CallConvolveRef /\ UNCHANGED aliRest
  \/ CallFFT2Ref /\ UNCHANGED aliRest
  \/ RunRef /\ UNCHANGED aliRest
  \/ ForgetRef /\ UNCHANGED aliRest

SpecAlias == InitAlias /\ [][NextAlias]_vars

\* the arrays the caller had before the call
CallerArrays == 1..ali.base

\* the arrays a returned value reaches: its own, and for a [][]complex128
\* those of its rows
Reaches(H, sl) ==
  {sl.addr} \cup {H[sl.addr].refs[k].addr : k \in 1..Len(H[sl.addr].refs)}

\* the caller's arrays are as they were before the call
ArgumentsUntouched ==
  /\ Len(ali.before) = ali.base
  /\ \A a \in CallerArrays : ~ali.mem[a].dirty /\ ali.mem[a] = ali.before[a]

\* C29: FFT, IFFT, Convolve and FFT2 assign no element of their arguments,
\* and what they return shares no array with an argument, on every path:
\* the copy for lengths 0 and 1, radix2FFT (reorderData and the two buffers
\* are new arrays) and bluesteinFFT (ZeroPad returns its argument itself
\* only when the length is already M, and M > len(x) on this path).
C29_NoAliasing ==
  ali.st = "returned" =>
    /\ ArgumentsUntouched
    /\ ali.ok =>
         /\ Reaches(ali.mem, ali.ret) \cap CallerArrays = {}
         /\ ali.ret.len = ali.args[1].len
         /\ ali.op = "FFT2" =>
              \A k, m \in 1..ali.ret.len :
                /\ ali.mem[ali.ret.addr].refs[k].len = ali.before[1].len
                /\ k # m => ali.mem[ali.ret.addr].refs[k].addr
                              # ali.mem[ali.ret.addr].refs[m].addr

\* FFT of 6 elements returned through bluesteinFFT: ZeroPad made a new array
\* of 16, and the result is the front of the array Convolve returned
C29_Witness ==
  /\ ali.st = "returned" /\ ali.op = "FFT" /\ ali.ok /\ ali.args[1].len = 6
  /\ ali.mem[2].len = 16 /\ ali.mem[2].dirty
  /\ ali.ret.len = 6 /\ ali.mem[ali.ret.addr].len = 16

\* Convolve(x, x) returned
C29_WitnessSameArgument ==
  /\ ali.st = "returned" /\ ali.op = "Convolve" /\ ali.ok
  /\ ali.args = <<SliceOf(1, 4), SliceOf(1, 4)>> /\ ali.ret.addr > 1

\* FFT2 of 2 rows of 3 returned
C29_WitnessMatrix ==
  /\ ali.st = "returned" /\ ali.op = "FFT2" /\ ali.ok
  /\ ali.args[1].len = 2 /\ ali.mem[1].len = 3
  /\ Cardinality(Reaches(ali.mem, ali.ret)) = 3

\* FFT of one element returned: the copy
C29_WitnessCopy ==
  /\ ali.st = "returned" /\ ali.op = "FFT" /\ ali.args[1].len = 1
  /\ ali.ret = SliceOf(2, 1) /\ Len(ali.mem) = 2

(***************************************************************************)
(* readSample of the wav package that computes its indices in uint16       *)
(* (src/unnamed/part_010; part_008 has the same arithmetic).               *)
(***************************************************************************)
wavFormatPCM == 1

wavFormatIEEEFloat == 3

\* the most channels tried
MaxChannels == 2

Wrap16 == 2 ^ 16

\* the conversion to uint16 and the arithmetic in uint16
uint16(v) == v % Wrap16

\* the byte of the data chunk at offset k: the chunk is data[0..ChunkSize-1]
ByteAt(k) == (k + 3 * (k \div 256) + 5 * (k \div Wrap16)) % 256

DataOf(hdr) == [k \in 0..(hdr.ChunkSize - 1) |-> ByteAt(k)]

\* []byte{b[idx], b[idx+1]} read as a little-endian int16; idx is a uint16
bLEtoInt16At(b, idx) ==
  LET v == b[idx] + 256 * b[uint16(idx + 1)]
  IN  IF v >= 32768 THEN v - Wrap16 ELSE v

\* []byte{b[idx], ..., b[idx+3]}, the four bytes of a float32
bLEtoFloat32At(b, idx) ==
  <<b[idx], b[uint16(idx + 1)], b[uint16(idx + 2)], b[uint16(idx + 3)]>>

\* si := uint16(sampleIndex)*header.NumChannels + ch
SampleIndex(sampleIndex, hdr, ch) == uint16(uint16(sampleIndex) * hdr.NumChannels + ch)

\* the offset in data at which the value of channel ch is read: si, 2*si or
\* 4*si in uint16; -1 when the switch has no case for the header
ReadOffset(sampleIndex, hdr, ch) ==
  LET si == SampleIndex(sampleIndex, hdr, ch)
  IN  IF hdr.AudioFormat = wavFormatPCM /\ hdr.BitsPerSample = 8 THEN si
      ELSE IF hdr.AudioFormat = wavFormatPCM /\ hdr.BitsPerSample = 16 THEN uint16(2 * si)
      ELSE IF hdr.AudioFormat = wavFormatIEEEFloat /\ hdr.BitsPerSample = 32
        THEN uint16(4 * si)
      ELSE -1

\* the value decoded from data at offset off for the header's format
DecodeAt(b, hdr, off) ==
  IF hdr.BitsPerSample = 8 THEN b[off]
  ELSE IF hdr.BitsPerSample = 16 THEN bLEtoInt16At(b, off)
  ELSE bLEtoFloat32At(b, off)

\* readSample(data, sampleIndex, header): the values by channel (n for PCM,
\* f for float), with the offsets they were read from
readSample(b, sampleIndex, hdr) ==
  [offs |-> [c \in 1..hdr.NumChannels |-> ReadOffset(sampleIndex, hdr, c - 1)],
   vals |-> [c \in 1..hdr.NumChannels |->
               DecodeAt(b, hdr, ReadOffset(sampleIndex, hdr, c - 1))]]

\* the formats readSample has a case for
SampleFormats ==
  {[AudioFormat |-> wavFormatPCM, BitsPerSample |-> 8],
   [AudioFormat |-> wavFormatPCM, BitsPerSample |-> 16],
   [AudioFormat |-> wavFormatIEEEFloat, BitsPerSample |-> 32]}

\* numbers of samples in the data chunk, and the sample indices tried
SampleCounts == {4, 32769, 65537}

SampleIndices == {0, 1, 3, 16383, 16384, 32767, 32768, 65535, 65536}

\* the header as setup fills it: BlockAlign bytes per sample of all
\* channels, NumSamples = ChunkSize / BlockAlign
SampleHeader(f, nc, cnt) ==
  LET align == nc * (f.BitsPerSample \div 8)
  IN  [AudioFormat |-> f.AudioFormat, NumChannels |-> nc,
       BitsPerSample |-> f.BitsPerSample, BlockAlign |-> align,
       ChunkSize |-> cnt * align, NumSamples |-> (cnt * align) \div align]

CallReadSample ==
  \E f \in SampleFormats, nc \in 1..MaxChannels, cnt \in SampleCounts, k \in SampleIndices :
    /\ smp.st = "idle"
    /\ k < SampleHeader(f, nc, cnt).NumSamples
    /\ smp' = [NoSmp EXCEPT !.st = "called", !.hdr = SampleHeader(f, nc, cnt), !.i = k]

RunReadSample ==
  /\ smp.st = "called"
  /\ LET res == readSample(DataOf(smp.hdr), smp.i, smp.hdr)
     IN  smp' = [smp EXCEPT !.st = "returned", !.offs = res.offs, !.vals = res.vals]

ForgetSample ==
  /\ smp.st = "returned"
  /\ smp' = NoSmp

smpRest == <<pkgVars, apiVars, poolVars, engVars, lockVars, gridVars, wavVars, seg, rev, stageVars, ali>>

InitSample ==
  /\ InitPkg /\ InitApi /\ InitPool /\ InitEng /\ InitLock /\ InitRest
  /\ gomaxprocs = 1

NextSample ==
  \/ CallReadSample /\ UNCHANGED smpRest
  \/ RunReadSample /\ UNCHANGED smpRest
  \/ ForgetSample /\ UNCHANGED smpRest

SpecSample == InitSample /\ [][NextSample]_vars

\* the byte offset of channel ch of sample i in the data chunk
ByteOffset(hdr, i, ch) == (hdr.BitsPerSample \div 8) * (i * hdr.NumChannels + ch)

\* C30: for every sample index i below NumSamples and every channel ch,
\* readSample decodes the value at byte offset
\* (BitsPerSample/8) * (i*NumChannels + ch) of the data chunk; the index
\* arithmetic in uint16 does not wrap modulo 2^16.
C30_DecodesAtOffset ==
  smp.st = "returned" =>
    \A c \in 1..smp.hdr.NumChannels :
      /\ smp.offs[c] = ByteOffset(smp.hdr, smp.i, c - 1)
      /\ smp.vals[c] = DecodeAt(DataOf(smp.hdr), smp.hdr, ByteOffset(smp.hdr, smp.i, c - 1))

\* what holds of the code: the value comes from the stated offset whenever
\* that offset, with the bytes of the value, lies below 2^16
C30_DecodesBelowWrap ==
  smp.st = "returned" =>
    \A c \in 1..smp.hdr.NumChannels :
      ByteOffset(smp.hdr, smp.i, c - 1) + (smp.hdr.BitsPerSample \div 8) <= Wrap16 =>
        /\ smp.offs[c] = ByteOffset(smp.hdr, smp.i, c - 1)
        /\ smp.vals[c] = DecodeAt(DataOf(smp.hdr), smp.hdr,
                                  ByteOffset(smp.hdr, smp.i, c - 1))

\* sample 32768 of a 16-bit mono chunk of 32769 samples is read at offset 0,
\* not at 65536, and the value is that of sample 0
C30_WrapsAtHalf ==
  /\ smp.st = "returned" /\ smp.i = 32768
  /\ smp.hdr.BitsPerSample = 16 /\ smp.hdr.NumChannels = 1
  /\ smp.hdr.NumSamples = 32769
  /\ smp.offs = <<0>> /\ ByteOffset(smp.hdr, smp.i, 0) = 65536
  /\ smp.vals[1] = bLEtoInt16At(DataOf(smp.hdr), 0)
  /\ smp.vals[1] # bLEtoInt16At(DataOf(smp.hdr), 65536)

\* sample 3 of two channels of 16 bits: offsets 12 and 14
C30_WitnessSmall ==
  /\ smp.st = "returned" /\ smp.i = 3
  /\ smp.hdr.BitsPerSample = 16 /\ smp.hdr.NumChannels = 2
  /\ smp.offs = <<12, 14>>

============================================================================
